---- MODULE Spec2Model ----
(***************************************************************************)
(* eipconf: desired-state reconciler for gif tunnels, VLAN interfaces and  *)
(* bridges.  The model follows the most evolved program of the repository  *)
(* (src/unnamed/part_004): fetchConfig, calculateDiff, applyConfig, the    *)
(* reset workflows and the two control paths of main.                      *)
(***************************************************************************)
EXTENDS Naturals, Integers, Sequences, FiniteSets, TLC

(***************************************************************************)
(* Bounds of the model.                                                    *)
(***************************************************************************)
MaxDoc == 3          \* longest document the validator is run on
MaxSpecs == 2        \* longest document the reconciliation passes are run on
MaxFailures == 1     \* commands that fail although the host would accept them
MaxPasses == 2       \* passes of the periodic goroutine
MaxSignals == 1      \* signals delivered to the process
MaxMembers == 2      \* members of a list handed to membersEqual
MaxBurst == 3        \* signals delivered to the process left alone with its signal loop
MaxPosts == 2        \* notifications in flight that are told apart (2: 2 or more)

(***************************************************************************)
(* Strings.  TLC cannot look inside a string, so every string operation    *)
(* the program uses is given by its value on the strings of the model.     *)
(***************************************************************************)
PhysicalIface == "em2"
OtherIface == "em3"
DefaultIfaceName == "em0"

S4 == "192.0.2.1"
S6 == "2001:db8::1"
D4a == "198.51.100.1"
D4b == "198.51.100.2"
D6a == "2001:db8::a"
HostName == "example.com"

\* strings.Contains(s, ":")
HasColon(s) == s \in {S6, D6a}

\* strings.TrimSpace on the descriptions of the model
TrimSpace(s) ==
    CASE s = "prod " -> "prod"
      [] s = " prod" -> "prod"
      [] OTHER -> s

\* fmt.Sprintf("gif%s", id), fmt.Sprintf("bridge%s", id), fmt.Sprintf("%s.%s", phys, vlan)
GifName(id) == "gif" \o id
BridgeName(id) == "bridge" \o id
VlanName(phys, vlanID) == phys \o "." \o vlanID

(***************************************************************************)
(* net.IP values as net.LookupIP returns them: a byte length (4 or 16) and *)
(* the address; String and To4 are the conversions the program applies.    *)
(***************************************************************************)
V4Text == <<D4a, D4b>>
V6Text == <<D6a>>
IPValues == [len : {4}, n : 1..Len(V4Text)] \cup [len : {16}, n : 1..Len(V6Text)]
IPString(ip) == IF ip.len = 4 THEN V4Text[ip.n] ELSE V6Text[ip.n]
To4NotNil(ip) == ip.len = 4

(***************************************************************************)
(* State.                                                                  *)
(***************************************************************************)
VARIABLES
    document,    \* the desired-state source: [readable, configs]
    dns,         \* answer of net.LookupIP per hostname: [err, ips]
    ifAddrs,     \* addresses `ifconfig <default_src_iface>` lists, in order
    settings,    \* Settings: DefaultSrcIface, DefaultSrcAddr, PhysicalIface
    live,        \* the host's interfaces: [gifs, vlans, bridges]
    pc,          \* position of the periodic goroutine and of the signal loop
    snap,        \* per control path: result of getCurrentInterfaces
    fetched,     \* per control path: result of fetchConfig
    plan,       \* per control path: result of calculateDiff
    queue,       \* per control path: steps applyConfig/reset still has to run
    issued,      \* per control path: commands issued in the pass in progress
    prevClean,   \* the previous periodic pass completed, every command succeeding
    sigChan,     \* the one-slot signal channel (811)
    sig,         \* the signal the signal loop is handling ("" when waiting)
    destroyed,   \* interfacesToRemove / vlansToRemove of the reset in progress
    done,        \* the done channel is closed (948)
    exited,      \* os.Exit was called (952)
    failures,    \* commands that failed although they could have succeeded
    passes,      \* passes the periodic goroutine has started
    signals,     \* signals delivered to the process
    asked,       \* a SIGINT or SIGTERM was delivered to the process
    compared,    \* a call of membersEqual: [m1, m2, result, swapped]
    run,         \* one call of runCommand: [outcomes, made, result]
    slack        \* the webhook: how it behaves and the sendToSlack goroutines it holds

vars == <<document, dns, ifAddrs, settings, live, pc, snap, fetched, plan, queue,
          issued, prevClean, sigChan, sig, destroyed, done, exited, failures,
          passes, signals, asked, compared, run, slack>>

(***************************************************************************)
(* getInterfaceAddr (300-327): the first address of the wanted family that *)
(* `ifconfig iface` lists; an error when there is none.                    *)
(***************************************************************************)
RECURSIVE firstAddr(_, _)
firstAddr(addrs, isIPv6) ==
    IF addrs = <<>> THEN ""
    ELSE IF HasColon(Head(addrs)) = isIPv6 THEN Head(addrs)
    ELSE firstAddr(Tail(addrs), isIPv6)

getInterfaceAddr(addrs, isIPv6) ==
    LET a == firstAddr(addrs, isIPv6)
    IN  [err |-> a = "", addr |-> a]

(***************************************************************************)
(* fetchConfig, one entry of the document (362-476).  Each stage returns   *)
(* the entry as rewritten so far and why it was skipped, if it was.        *)
(***************************************************************************)
\* 363-370: missing tunnel_id / vlan_id
missingField(config) ==
    IF config.TunnelID = "" THEN "missing tunnel_id"
    ELSE IF config.VlanID = "" THEN "missing vlan_id"
    ELSE ""

\* 373-387: the switch on ip_version
ipVersionInferredFirst(config) ==
    IF config.IPVersion \notin {"", "4", "6"} THEN [ok |-> TRUE, isIPv6 |-> FALSE]
    ELSE IF config.SrcAddr # "" THEN [ok |-> TRUE, isIPv6 |-> HasColon(config.SrcAddr)]
    ELSE [ok |-> TRUE, isIPv6 |-> config.IPVersion = "6"]
ipVersion(config) ==
    CASE config.IPVersion = "6" -> [ok |-> TRUE, isIPv6 |-> TRUE]
      [] config.IPVersion = "4" -> [ok |-> TRUE, isIPv6 |-> FALSE]
      [] config.IPVersion = ""  ->
            [ok |-> TRUE,
             isIPv6 |-> IF config.SrcAddr # "" THEN HasColon(config.SrcAddr) ELSE FALSE]
      [] OTHER -> [ok |-> FALSE, isIPv6 |-> FALSE]

\* 390-406: src_addr from default_src_iface, else default_src_addr
resolveSrc(config, isIPv6, st, addrs) ==
    IF config.SrcAddr # "" THEN [ok |-> TRUE, config |-> config, reason |-> ""]
    ELSE IF st.DefaultSrcIface # "" THEN
        LET r == getInterfaceAddr(addrs, isIPv6)
        IN  IF r.err
            THEN [ok |-> FALSE, config |-> config, reason |-> "no interface address"]
            ELSE [ok |-> TRUE, config |-> [config EXCEPT !.SrcAddr = r.addr],
                  reason |-> ""]
    ELSE IF st.DefaultSrcAddr # "" THEN
        [ok |-> TRUE, config |-> [config EXCEPT !.SrcAddr = st.DefaultSrcAddr],
         reason |-> ""]
    ELSE [ok |-> FALSE, config |-> config, reason |-> "missing src_addr"]

\* 409: the destination has to be looked up
needsLookupHostnameOnly(config) == config.DstHostname # ""
needsLookup(config) == config.DstAddr = "" /\ config.DstHostname # ""

\* 421-429: the existing destination, when it is among the resolved addresses
keepExistingIfFirst(ips, dst) ==
    IF ips # <<>> /\ IPString(Head(ips)) = dst THEN dst ELSE ""
RECURSIVE keepExisting(_, _)
keepExisting(ips, dst) ==
    IF ips = <<>> THEN ""
    ELSE IF IPString(Head(ips)) = dst THEN dst
    ELSE keepExisting(Tail(ips), dst)

\* 431-439: the first resolved address of the target version
firstOfAnyVersion(ips, isIPv6) ==
    IF ips = <<>> THEN "" ELSE IPString(Head(ips))
RECURSIVE firstOfVersion(_, _)
firstOfVersion(ips, isIPv6) ==
    IF ips = <<>> THEN ""
    ELSE IF isIPv6 /\ ~To4NotNil(Head(ips)) THEN IPString(Head(ips))
    ELSE IF ~isIPv6 /\ To4NotNil(Head(ips)) THEN IPString(Head(ips))
    ELSE firstOfVersion(Tail(ips), isIPv6)

\* 412-418, 441-447: no address from the lookup; an existing gif keeps its
\* destination with a warning, a new one is skipped with an error
existingOrSkipAlwaysSkip(exists, currentDst, reason) ==
    [ok |-> FALSE, dst |-> "", warn |-> FALSE, reason |-> reason]
existingOrSkip(exists, currentDst, reason) ==
    IF exists
    THEN [ok |-> TRUE, dst |-> currentDst, warn |-> TRUE, reason |-> ""]
    ELSE [ok |-> FALSE, dst |-> "", warn |-> FALSE, reason |-> reason]

\* 408-457: dst_addr from the document, from the lookup, or from the existing gif
resolveDst(config, isIPv6, currentGifs, answers) ==
    LET gif == GifName(config.TunnelID)
        exists == gif \in DOMAIN currentGifs
        currentDst == IF exists THEN currentGifs[gif].Dst ELSE ""
        res(ok, dst, looked, warn, reason) ==
            [ok |-> ok, config |-> [config EXCEPT !.DstAddr = dst],
             lookedUp |-> looked, warn |-> warn, reason |-> reason]
        fallback(reason) ==
            LET f == existingOrSkip(exists, currentDst, reason)
            IN  res(f.ok, f.dst, TRUE, f.warn, f.reason)
    IN
    IF needsLookup(config) THEN
        LET ans == answers[config.DstHostname]
        IN  IF ans.err THEN fallback("unresolvable dst_hostname")
            ELSE
                LET kept == IF exists THEN keepExisting(ans.ips, currentDst) ELSE ""
                    picked == firstOfVersion(ans.ips, isIPv6)
                IN  IF kept # "" THEN res(TRUE, kept, TRUE, FALSE, "")
                    ELSE IF picked # "" THEN res(TRUE, picked, TRUE, FALSE, "")
                    ELSE fallback("no suitable IP for dst_hostname")
    ELSE IF config.DstAddr = "" /\ config.DstHostname = "" THEN
        res(FALSE, "", FALSE, FALSE, "missing both dst_addr and dst_hostname")
    ELSE res(TRUE, config.DstAddr, FALSE, FALSE, "")

\* 459-470: the duplicate checks against the entries accepted so far
duplicateOfIgnoringDst(config, acc) ==
    IF config.TunnelID \in acc.tunnelIDs THEN "duplicate tunnel_id"
    ELSE IF config.VlanID \in acc.vlanIDs THEN "duplicate vlan_id"
    ELSE ""
duplicateOfIgnoringVlan(config, acc) ==
    IF config.TunnelID \in acc.tunnelIDs THEN "duplicate tunnel_id"
    ELSE IF config.DstAddr \in acc.dstAddrs THEN "duplicate dst_addr"
    ELSE ""
duplicateOf(config, acc) ==
    IF config.TunnelID \in acc.tunnelIDs THEN "duplicate tunnel_id"
    ELSE IF config.DstAddr \in acc.dstAddrs THEN "duplicate dst_addr"
    ELSE IF config.VlanID \in acc.vlanIDs THEN "duplicate vlan_id"
    ELSE ""

\* What became of one entry: status "accepted" or "skipped"; `error` the reason
\* of the error-level report ("" when none); `warn` a warning-level report was
\* made; `lookedUp` net.LookupIP was called; `resolved` the entry reached the
\* duplicate checks; `config` the entry as rewritten; `raw` as in the document.
Fate(raw, config, status, error, warn, looked, resolved, isIPv6) ==
    [raw |-> raw, config |-> config, status |-> status, error |-> error,
     warn |-> warn, lookedUp |-> looked, resolved |-> resolved, isIPv6 |-> isIPv6]

\* 362-476: the loop body
processEntry(acc, raw, currentGifs, st, answers, addrs) ==
    LET skip(f) == [acc EXCEPT !.fates = Append(@, f)]
        mf == missingField(raw)
        ver == ipVersion(raw)
        src == resolveSrc(raw, ver.isIPv6, st, addrs)
        dst == resolveDst(src.config, ver.isIPv6, currentGifs, answers)
        dup == duplicateOf(dst.config, acc)
    IN
    IF mf # "" THEN skip(Fate(raw, raw, "skipped", mf, FALSE, FALSE, FALSE, FALSE))
    ELSE IF ~ver.ok THEN
        skip(Fate(raw, raw, "skipped", "invalid ip_version", FALSE, FALSE, FALSE, FALSE))
    ELSE IF ~src.ok THEN
        skip(Fate(raw, src.config, "skipped", src.reason, FALSE, FALSE, FALSE, ver.isIPv6))
    ELSE IF ~dst.ok THEN
        skip(Fate(raw, dst.config, "skipped", dst.reason, dst.warn, dst.lookedUp, FALSE,
                  ver.isIPv6))
    ELSE IF dup # "" THEN
        skip(Fate(raw, dst.config, "skipped", dup, dst.warn, dst.lookedUp, TRUE,
                  ver.isIPv6))
    ELSE
        [validConfigs |-> Append(acc.validConfigs, dst.config),
         tunnelIDs |-> acc.tunnelIDs \cup {dst.config.TunnelID},
         dstAddrs |-> acc.dstAddrs \cup {dst.config.DstAddr},
         vlanIDs |-> acc.vlanIDs \cup {dst.config.VlanID},
         fates |-> Append(acc.fates,
                     Fate(raw, dst.config, "accepted", "", dst.warn, dst.lookedUp, TRUE,
                          ver.isIPv6))]

RECURSIVE fetchLoop(_, _, _, _, _, _)
fetchLoopAborting(acc, configs, currentGifs, st, answers, addrs) ==
    IF configs = <<>> THEN acc
    ELSE LET a == processEntry(acc, Head(configs), currentGifs, st, answers, addrs)
         IN  IF Len(a.validConfigs) = Len(acc.validConfigs) THEN a
             ELSE fetchLoop(a, Tail(configs), currentGifs, st, answers, addrs)
fetchLoop(acc, configs, currentGifs, st, answers, addrs) ==
    IF configs = <<>> THEN acc
    ELSE fetchLoop(processEntry(acc, Head(configs), currentGifs, st, answers, addrs),
                   Tail(configs), currentGifs, st, answers, addrs)

\* 357-360
NoneAccepted ==
    [validConfigs |-> <<>>, tunnelIDs |-> {}, dstAddrs |-> {}, vlanIDs |-> {},
     fates |-> <<>>]

\* fetchConfig (330-479): err when the source cannot be read or parsed
fetchConfigEmptyOnError(source, currentGifs, st, answers, addrs) ==
    IF ~source.readable
    THEN [err |-> FALSE, validConfigs |-> <<>>, fates |-> <<>>]
    ELSE LET acc == fetchLoop(NoneAccepted, source.configs, currentGifs, st, answers,
                              addrs)
         IN  [err |-> FALSE, validConfigs |-> acc.validConfigs, fates |-> acc.fates]
\* fetchConfig (330-479): err when the source cannot be read or parsed
fetchConfig(source, currentGifs, st, answers, addrs) ==
    IF ~source.readable
    THEN [err |-> TRUE, validConfigs |-> <<>>, fates |-> <<>>]
    ELSE LET acc == fetchLoop(NoneAccepted, source.configs, currentGifs, st, answers,
                              addrs)
         IN  [err |-> FALSE, validConfigs |-> acc.validConfigs, fates |-> acc.fates]

NotFetched == [err |-> FALSE, validConfigs |-> <<>>, fates |-> <<>>]

(***************************************************************************)
(* The host.  live.gifs maps a gif to its tunnel family ("none", "inet",   *)
(* "inet6"), endpoints and description; live.vlans maps a VLAN interface   *)
(* to its tag ("" while not configured); live.bridges maps a bridge to its *)
(* member list.                                                            *)
(***************************************************************************)
Remove(f, k) == [x \in DOMAIN f \ {k} |-> f[x]]
Put(f, k, v) == [x \in DOMAIN f \cup {k} |-> IF x = k THEN v ELSE f[x]]
Interfaces(l) == DOMAIN l.gifs \cup DOMAIN l.vlans \cup DOMAIN l.bridges

\* strings.TrimPrefix(gifName, "gif") / (bridgeName, "bridge")
AllIDs == {"1", "2"}
TunnelIDOfGif(name) == CHOOSE id \in AllIDs : GifName(id) = name
TunnelIDOfBridge(name) == CHOOSE id \in AllIDs : BridgeName(id) = name

\* getCurrentInterfaces (208-271)
gifInterfaces(l) ==
    [g \in DOMAIN l.gifs |->
        LET d == l.gifs[g]
            desc == TrimSpace(d.descr)
            id == TunnelIDOfGif(g)
        IN  IF d.fam = "inet"
            THEN [Src |-> d.src, Dst |-> d.dst, Vlan |-> "", IsIPv6 |-> FALSE,
                  TunnelID |-> id, Description |-> desc]
            ELSE IF d.fam = "inet6"
            THEN [Src |-> d.src, Dst |-> d.dst, Vlan |-> "", IsIPv6 |-> TRUE,
                  TunnelID |-> id, Description |-> desc]
            ELSE [Src |-> "", Dst |-> "", Vlan |-> "", IsIPv6 |-> FALSE,
                  TunnelID |-> id, Description |-> desc]]

bridgeInterfaces(l) ==
    [b \in DOMAIN l.bridges |->
        [Members |-> l.bridges[b], TunnelID |-> TunnelIDOfBridge(b)]]

vlanInterfaces(l) ==
    [v \in {x \in DOMAIN l.vlans : l.vlans[x] # ""} |-> l.vlans[v]]

getCurrentInterfaces(l) ==
    [gifs |-> gifInterfaces(l), bridges |-> bridgeInterfaces(l),
     vlans |-> vlanInterfaces(l)]

NoSnapshot == [gifs |-> <<>>, bridges |-> <<>>, vlans |-> <<>>]

(***************************************************************************)
(* membersEqual (482-496)                                                  *)
(***************************************************************************)
Range(s) == {s[i] : i \in DOMAIN s}

NotCompared == [m1 |-> <<>>, m2 |-> <<>>, result |-> "none", swapped |-> "none"]

membersEqualInOrder(m1, m2) == m1 = m2
membersEqual(m1, m2) ==
    IF Len(m1) # Len(m2) THEN FALSE
    ELSE \A i \in DOMAIN m2 : m2[i] \in Range(m1)

(***************************************************************************)
(* calculateDiff (651-699)                                                 *)
(***************************************************************************)
jsonGifs(configs) ==
    [g \in {GifName(configs[i].TunnelID) : i \in DOMAIN configs} |->
        LET config == configs[CHOOSE i \in DOMAIN configs :
                                  GifName(configs[i].TunnelID) = g
                                  /\ \A j \in DOMAIN configs :
                                        GifName(configs[j].TunnelID) = g => j <= i]
        IN  [Src |-> config.SrcAddr, Dst |-> config.DstAddr, Vlan |-> config.VlanID,
             IsIPv6 |-> HasColon(config.SrcAddr) \/ HasColon(config.DstAddr),
             TunnelID |-> config.TunnelID, Description |-> config.Description]]

jsonBridges(configs, physicalIface) ==
    [b \in {BridgeName(configs[i].TunnelID) : i \in DOMAIN configs} |->
        LET config == configs[CHOOSE i \in DOMAIN configs :
                                  BridgeName(configs[i].TunnelID) = b
                                  /\ \A j \in DOMAIN configs :
                                        BridgeName(configs[j].TunnelID) = b => j <= i]
        IN  [Members |-> <<GifName(config.TunnelID),
                           VlanName(physicalIface, config.VlanID)>>,
             TunnelID |-> config.TunnelID]]

Restrict(f, S) == [x \in S |-> f[x]]

\* 674: the comparison of an observed gif with the one the document asks for
gifDiffersIgnoringDescription(current, v) ==
    current.Src # v.Src \/ current.Dst # v.Dst \/ current.IsIPv6 # v.IsIPv6
gifDiffers(current, v) ==
    \/ current.Src # v.Src
    \/ current.Dst # v.Dst
    \/ current.IsIPv6 # v.IsIPv6
    \/ current.Description # v.Description

calculateDiff(currentGifs, currentBridges, configs, physicalIface) ==
    LET jg == jsonGifs(configs)
        jb == jsonBridges(configs, physicalIface)
        differs(k) == gifDiffers(currentGifs[k], jg[k])
    IN  [gifsToAdd |-> Restrict(jg, DOMAIN jg \ DOMAIN currentGifs),
         gifsToModify |->
            Restrict(jg, {k \in DOMAIN jg \cap DOMAIN currentGifs : differs(k)}),
         gifsToRemove |-> Restrict(currentGifs, DOMAIN currentGifs \ DOMAIN jg),
         bridgesToAdd |->
            Restrict(jb, {k \in DOMAIN jb :
                            \/ k \notin DOMAIN currentBridges
                            \/ ~membersEqual(currentBridges[k].Members, jb[k].Members)}),
         bridgesToRemove |->
            Restrict(currentBridges, DOMAIN currentBridges \ DOMAIN jb)]

NoDiff ==
    [gifsToAdd |-> <<>>, gifsToModify |-> <<>>, gifsToRemove |-> <<>>,
     bridgesToAdd |-> <<>>, bridgesToRemove |-> <<>>]

(***************************************************************************)
(* applyConfig (499-648) as the straight-line program it runs for a given  *)
(* snapshot: the ifconfig commands in order, each with what a hard failure *)
(* of it does. `cont`: the failure branch is `continue`, which leaves the  *)
(* rest of this spec's work undone; otherwise the failure is only logged.  *)
(***************************************************************************)
Cmd(iface, verb, args) == [iface |-> iface, verb |-> verb, args |-> args]
Item(c, cont) == [c |-> c, cont |-> cont]

\* 529-533, 557-561
tunnelArgsSwapped(config) ==
    (IF HasColon(config.SrcAddr) THEN <<"inet6">> ELSE <<>>)
        \o <<"tunnel", config.DstAddr, config.SrcAddr>>
tunnelArgs(config) ==
    (IF HasColon(config.SrcAddr) THEN <<"inet6">> ELSE <<>>)
        \o <<"tunnel", config.SrcAddr, config.DstAddr>>

\* 544-550, 575-581
descriptionItems(gif, config) ==
    IF config.Description # ""
    THEN <<Item(Cmd(gif, "description", <<config.Description>>), FALSE)>>
    ELSE <<>>

\* 525-582
gifItems(config, currentGifs, forceReset) ==
    LET gif == GifName(config.TunnelID)
    IN  IF gif \in DOMAIN currentGifs /\ ~forceReset THEN
            LET current == currentGifs[gif]
            IN  IF /\ current.Src = config.SrcAddr
                   /\ current.Dst = config.DstAddr
                   /\ current.IsIPv6 = HasColon(config.SrcAddr)
                   /\ current.Description = config.Description
                THEN <<>>
                ELSE <<Item(Cmd(gif, "tunnel", tunnelArgs(config)), TRUE),
                       Item(Cmd(gif, "link0", <<>>), FALSE),
                       Item(Cmd(gif, "up", <<>>), FALSE)>>
                     \o descriptionItems(gif, config)
        ELSE <<Item(Cmd(gif, "create", <<>>), TRUE),
               Item(Cmd(gif, "tunnel", tunnelArgs(config)), TRUE),
               Item(Cmd(gif, "mtu", <<"1500">>), FALSE),
               Item(Cmd(gif, "link0", <<>>), FALSE),
               Item(Cmd(gif, "up", <<>>), FALSE)>>
             \o descriptionItems(gif, config)

\* 584-600
vlanItemsDestroyLogged(config, st, currentVLANs, forceReset) ==
    LET vlanIface == VlanName(st.PhysicalIface, config.VlanID)
        exists == vlanIface \in DOMAIN currentVLANs
    IN  IF exists /\ currentVLANs[vlanIface] = config.VlanID /\ ~forceReset THEN <<>>
        ELSE (IF exists THEN <<Item(Cmd(vlanIface, "destroy", <<>>), FALSE)>> ELSE <<>>)
             \o <<Item(Cmd(vlanIface, "create", <<>>), TRUE),
                  Item(Cmd(vlanIface, "vlan",
                           <<config.VlanID, "vlandev", st.PhysicalIface, "up">>), FALSE)>>
\* 584-600
vlanItems(config, st, currentVLANs, forceReset) ==
    LET vlanIface == VlanName(st.PhysicalIface, config.VlanID)
        exists == vlanIface \in DOMAIN currentVLANs
    IN  IF exists /\ currentVLANs[vlanIface] = config.VlanID /\ ~forceReset THEN <<>>
        ELSE (IF exists THEN <<Item(Cmd(vlanIface, "destroy", <<>>), TRUE)>> ELSE <<>>)
             \o <<Item(Cmd(vlanIface, "create", <<>>), TRUE),
                  Item(Cmd(vlanIface, "vlan",
                           <<config.VlanID, "vlandev", st.PhysicalIface, "up">>), FALSE)>>

\* 602-640
bridgeItemsMtuOnRecreate(config, st, currentBridges, forceReset) ==
    LET gif == GifName(config.TunnelID)
        bridge == BridgeName(config.TunnelID)
        vlanIface == VlanName(st.PhysicalIface, config.VlanID)
        expectedMembers == <<gif, vlanIface>>
        addm == [i \in 1..Len(expectedMembers) |->
                    Item(Cmd(bridge, "addm", <<expectedMembers[i]>>), FALSE)]
        build == <<Item(Cmd(bridge, "create", <<>>), TRUE)>>
                 \o addm
                 \o <<Item(Cmd(bridge, "mtu", <<"1500">>), FALSE),
                      Item(Cmd(bridge, "up", <<>>), FALSE)>>
    IN  IF bridge \in DOMAIN currentBridges /\ ~forceReset THEN
            IF membersEqual(currentBridges[bridge].Members, expectedMembers) THEN <<>>
            ELSE <<Item(Cmd(bridge, "destroy", <<>>), TRUE)>> \o build
        ELSE build
bridgeItems(config, st, currentBridges, forceReset) ==
    LET gif == GifName(config.TunnelID)
        bridge == BridgeName(config.TunnelID)
        vlanIface == VlanName(st.PhysicalIface, config.VlanID)
        expectedMembers == <<gif, vlanIface>>
        addm == [i \in 1..Len(expectedMembers) |->
                    Item(Cmd(bridge, "addm", <<expectedMembers[i]>>), FALSE)]
    IN  IF bridge \in DOMAIN currentBridges /\ ~forceReset THEN
            IF membersEqual(currentBridges[bridge].Members, expectedMembers) THEN <<>>
            ELSE <<Item(Cmd(bridge, "destroy", <<>>), TRUE),
                   Item(Cmd(bridge, "create", <<>>), TRUE)>>
                 \o addm
                 \o <<Item(Cmd(bridge, "up", <<>>), FALSE)>>
        ELSE <<Item(Cmd(bridge, "create", <<>>), TRUE)>>
             \o addm
             \o <<Item(Cmd(bridge, "mtu", <<"1500">>), FALSE),
                  Item(Cmd(bridge, "up", <<>>), FALSE)>>

\* One step of a program: the command, how many of the steps after it a hard
\* failure skips, and whether a hard failure aborts the whole workflow
\* (`return err` of the reset workflows).
Step(c, skip, abort) == [c |-> c, skip |-> skip, abort |-> abort]

\* 518-641: the body of the loop over configs, for one spec
configSteps(config, st, currentGifs, currentVLANs, currentBridges, forceReset) ==
    LET items == gifItems(config, currentGifs, forceReset)
                 \o vlanItems(config, st, currentVLANs, forceReset)
                 \o bridgeItems(config, st, currentBridges, forceReset)
    IN  [k \in 1..Len(items) |->
            Step(items[k].c, IF items[k].cont THEN Len(items) - k ELSE 0, FALSE)]

RECURSIVE allConfigSteps(_, _, _, _, _, _)
allConfigSteps(configs, st, currentGifs, currentVLANs, currentBridges, forceReset) ==
    IF configs = <<>> THEN <<>>
    ELSE configSteps(Head(configs), st, currentGifs, currentVLANs, currentBridges,
                     forceReset)
         \o allConfigSteps(Tail(configs), st, currentGifs, currentVLANs,
                           currentBridges, forceReset)

\* 506-516, 643-647: one destroy per name, a failure is only logged
destroySteps(names) ==
    [k \in 1..Len(names) |-> Step(Cmd(names[k], "destroy", <<>>), 0, FALSE)]

\* 501-504, 523: the VLAN interfaces of the snapshot no spec refers to
vlanToRemoveEverything(configs, st, currentVLANs) == DOMAIN currentVLANs
vlanToRemove(configs, st, currentVLANs) ==
    DOMAIN currentVLANs
        \ {VlanName(st.PhysicalIface, configs[i].VlanID) : i \in DOMAIN configs}

\* Go ranges over a map in an unspecified order: every order of its keys
Orders(S) ==
    {o \in [1..Cardinality(S) -> S] : \A i, j \in DOMAIN o : o[i] = o[j] => i = j}

\* applyConfig (499-648); gifOrder, bridgeOrder and vlanOrder are the orders in
\* which the three map ranges happen to run
applyConfigCleanupFirst(gifOrder, bridgeOrder, vlanOrder, configs, st, currentGifs, currentVLANs, currentBridges, forceReset) ==
    destroySteps(vlanOrder)
    \o destroySteps(bridgeOrder)
    \o destroySteps(gifOrder)
    \o allConfigSteps(configs, st, currentGifs, currentVLANs, currentBridges, forceReset)
applyConfig(gifOrder, bridgeOrder, vlanOrder, configs, st, currentGifs, currentVLANs, currentBridges, forceReset) ==
    destroySteps(gifOrder)
    \o destroySteps(bridgeOrder)
    \o allConfigSteps(configs, st, currentGifs, currentVLANs, currentBridges, forceReset)
    \o destroySteps(vlanOrder)

(***************************************************************************)
(* ifconfig.  What a command does to the host when it succeeds, and which  *)
(* results a command can have on a given host: "ok" (exit status 0),       *)
(* "exists" (non-zero, output "already exists") or "fail" (non-zero on     *)
(* each of the 3 attempts of runCommand, 185-205).                         *)
(***************************************************************************)
GifNames == {GifName(id) : id \in AllIDs}
BridgeNames == {BridgeName(id) : id \in AllIDs}

RECURSIVE without(_, _)
without(members, name) ==
    IF members = <<>> THEN <<>>
    ELSE IF Head(members) = name THEN without(Tail(members), name)
    ELSE <<Head(members)>> \o without(Tail(members), name)

\* destroying an interface also takes it out of every bridge
destroyIface(l, name) ==
    LET gone == [gifs |-> IF name \in DOMAIN l.gifs THEN Remove(l.gifs, name) ELSE l.gifs,
                 vlans |-> IF name \in DOMAIN l.vlans THEN Remove(l.vlans, name)
                           ELSE l.vlans,
                 bridges |-> IF name \in DOMAIN l.bridges THEN Remove(l.bridges, name)
                             ELSE l.bridges]
    IN  [gone EXCEPT !.bridges = [b \in DOMAIN gone.bridges |->
                                    without(gone.bridges[b], name)]]

createIface(l, name) ==
    IF name \in GifNames
    THEN [l EXCEPT !.gifs = Put(@, name, [fam |-> "none", src |-> "", dst |-> "",
                                          descr |-> ""])]
    ELSE IF name \in BridgeNames
    THEN [l EXCEPT !.bridges = Put(@, name, <<>>)]
    ELSE [l EXCEPT !.vlans = Put(@, name, "")]

Effect(l, c) ==
    CASE c.verb = "destroy" -> destroyIface(l, c.iface)
      [] c.verb = "create" -> createIface(l, c.iface)
      [] c.verb = "tunnel" ->
            LET n == Len(c.args)
            IN  [l EXCEPT !.gifs[c.iface] =
                    [@ EXCEPT !.fam = IF c.args[1] = "inet6" THEN "inet6" ELSE "inet",
                              !.src = c.args[n - 1], !.dst = c.args[n]]]
      [] c.verb = "description" -> [l EXCEPT !.gifs[c.iface].descr = c.args[1]]
      [] c.verb = "vlan" -> [l EXCEPT !.vlans[c.iface] = c.args[1]]
      [] c.verb = "addm" -> [l EXCEPT !.bridges[c.iface] = Append(@, c.args[1])]
      [] OTHER -> l

Results(l, c) ==
    LET there == c.iface \in Interfaces(l)
        n == Len(c.args)
    IN  CASE c.verb = "create" -> IF there THEN {"exists", "fail"} ELSE {"ok", "fail"}
          [] c.verb = "tunnel" ->
                IF /\ c.iface \in DOMAIN l.gifs
                   /\ c.args[n] # ""
                   /\ HasColon(c.args[n]) = HasColon(c.args[n - 1])
                THEN {"ok", "fail"} ELSE {"fail"}
          [] c.verb = "addm" ->
                IF /\ c.iface \in DOMAIN l.bridges
                   /\ c.args[1] \in DOMAIN l.gifs \cup DOMAIN l.vlans
                   /\ \A b \in DOMAIN l.bridges : c.args[1] \notin Range(l.bridges[b])
                THEN {"ok", "fail"} ELSE {"fail"}
          [] OTHER -> IF there THEN {"ok", "fail"} ELSE {"fail"}

\* runCommand (185-205) returns nil for "ok" and for "exists"
Succeeded(r) == r \in {"ok", "exists"}

(***************************************************************************)
(* runCommand (185-205), attempt by attempt.  run.outcomes[k] is what the  *)
(* k-th attempt yields if it is made: whether the command exits zero and   *)
(* whether its output contains "already exists".                           *)
(***************************************************************************)
MaxAttempts == 3
AttemptOutcomes == [exitZero : BOOLEAN, alreadyExists : BOOLEAN]
NoRun == [outcomes |-> <<>>, made |-> 0, result |-> ""]
outside == <<document, dns, ifAddrs, settings, live, pc, snap, fetched, plan, queue,
             issued, prevClean, sigChan, sig, destroyed, done, exited, failures,
             passes, signals, asked>>

\* 194: strings.Contains(outputStr, "already exists")
saysAlreadyExistsNever(o) == FALSE
saysAlreadyExists(o) == o.alreadyExists

Attempting ==
    /\ run.outcomes # <<>> /\ run.result = "" /\ run.made < MaxAttempts

\* 187-192: the attempt exits zero
RunAttemptSucceeded ==
    /\ Attempting
    /\ run.outcomes[run.made + 1].exitZero
    /\ run' = [run EXCEPT !.made = @ + 1, !.result = "nil"]
    /\ UNCHANGED <<outside, compared, slack>>

\* 193-197: non-zero, "already exists" in the output
RunAttemptAlreadyExists ==
    /\ Attempting
    /\ ~run.outcomes[run.made + 1].exitZero
    /\ saysAlreadyExists(run.outcomes[run.made + 1])
    /\ run' = [run EXCEPT !.made = @ + 1, !.result = "nil"]
    /\ UNCHANGED <<outside, compared, slack>>

\* 198-202: the attempt failed; sleep a second unless it was the last one
RunAttemptFailed ==
    /\ Attempting
    /\ ~run.outcomes[run.made + 1].exitZero
    /\ ~saysAlreadyExists(run.outcomes[run.made + 1])
    /\ run' = [run EXCEPT !.made = @ + 1]
    /\ UNCHANGED <<outside, compared, slack>>

\* 204: the loop is over
RunGiveUp ==
    /\ run.outcomes # <<>> /\ run.result = "" /\ run.made >= MaxAttempts
    /\ run' = [run EXCEPT !.result = "error"]
    /\ UNCHANGED <<outside, compared, slack>>

(***************************************************************************)
(* The reset workflows (735-795) as programs: one destroy per interface,   *)
(* in the order the map range happens to run; a hard failure returns the   *)
(* error at once.                                                          *)
(***************************************************************************)
AllVlanIDs == {"100", "101", "200"}

\* strings.HasPrefix(vlan, physicalIface + ".")
HasPrefixDot(vlan, physicalIface) ==
    vlan \in {VlanName(physicalIface, v) : v \in AllVlanIDs}

abortingDestroys(names) ==
    [k \in 1..Len(names) |-> Step(Cmd(names[k], "destroy", <<>>), 0, TRUE)]

\* resetVLANs (735-745)
resetVLANs(physicalIface, vlanOrder) ==
    abortingDestroys(vlanOrder)

resetVLANsTargets(physicalIface, currentVLANs) ==
    {v \in DOMAIN currentVLANs : HasPrefixDot(v, physicalIface)}

\* resetAllInterfaces (759-784)
resetAllInterfaces(gifOrder, vlanOrder, bridgeOrder) ==
    abortingDestroys(gifOrder) \o abortingDestroys(vlanOrder)
        \o abortingDestroys(bridgeOrder)

\* waitForInterfacesRemoval (716-726): the names `ifconfig -a` still shows
remainingNone(l, interfaces) == {}
remaining(l, interfaces) == {i \in interfaces : i \in Interfaces(l)}

(***************************************************************************)
(* Notifications (67-182).  Every record of level WARN or ERROR and every  *)
(* non-empty diff starts a goroutine that posts to the webhook, when one   *)
(* is configured; slack.posts counts the goroutines waiting in http.Post.  *)
(***************************************************************************)
WebhookURL == "https://hooks.example/T0"
Sinks == {"answers", "fails", "silent"}
Quiet == [sink |-> "answers", posts |-> 0]

\* 143-145, 179-181: goroutines notifyConfigDiff starts
notifyConfigDiff(d, st) ==
    IF /\ DOMAIN d.gifsToAdd = {} /\ DOMAIN d.gifsToModify = {}
       /\ DOMAIN d.gifsToRemove = {}
       /\ DOMAIN d.bridgesToAdd = {} /\ DOMAIN d.bridgesToRemove = {}
    THEN 0
    ELSE IF st.SlackWebhookURL # "" THEN 1 ELSE 0

\* 69, 96: goroutines SlackHandler.Handle starts for n records of level WARN
\* or ERROR
Handle(n, st) == IF st.SlackWebhookURL # "" THEN n ELSE 0

\* the records of level WARN or ERROR fetchConfig writes (364-468)
reports(r) ==
    Cardinality({i \in DOMAIN r.fates : r.fates[i].error # ""})
        + Cardinality({i \in DOMAIN r.fates : r.fates[i].warn})

\* 96, 180: `go sendToSlack(...)`: the caller goes on without waiting for
\* the goroutines in flight
waitsForPosts(posts) == posts > 0
waits(posts) == FALSE

\* n more goroutines in flight
Spawn(n) ==
    /\ ~waits(slack.posts)
    /\ slack' = [slack EXCEPT !.posts = IF @ + n > MaxPosts THEN MaxPosts ELSE @ + n]

\* 132, 137: the webhook answered; the goroutine ends
PostAnswered ==
    /\ slack.sink = "answers" /\ slack.posts > 0
    /\ slack' = [slack EXCEPT !.posts = @ - 1]
    /\ UNCHANGED outside
    /\ UNCHANGED <<run, compared>>

\* 133-136: http.Post returned an error; the goroutine ends
PostFailed ==
    /\ slack.sink = "fails" /\ slack.posts > 0
    /\ slack' = [slack EXCEPT !.posts = @ - 1]
    /\ UNCHANGED outside
    /\ UNCHANGED <<run, compared>>

(***************************************************************************)
(* The two control paths of main: the periodic goroutine (874-900) and the *)
(* signal loop (902-954).                                                  *)
(***************************************************************************)
Paths == {"loop", "sig"}
Signals == {"SIGHUP", "SIGUSR1", "SIGUSR2", "SIGINT", "SIGTERM"}

AllSucceeded(log) == \A i \in DOMAIN log : Succeeded(log[i].result)

\* getCurrentInterfaces at the start of a pass
TakeSnapshot(p) ==
    /\ snap' = [snap EXCEPT ![p] = getCurrentInterfaces(live)]
    /\ issued' = [issued EXCEPT ![p] = <<>>]

\* fetchConfig, calculateDiff and the program of applyConfig
\* (logged: the records of level WARN or ERROR written on the way)
PlanPass(p, r, s, forceReset, logged) ==
    \E d \in {calculateDiff(s.gifs, s.bridges, r.validConfigs, settings.PhysicalIface)} :
        /\ fetched' = [fetched EXCEPT ![p] = r]
        /\ plan' = [plan EXCEPT ![p] = d]
        /\ Spawn(Handle(logged, settings) + notifyConfigDiff(d, settings))
        /\ \E gifOrder \in Orders(DOMAIN d.gifsToRemove),
              bridgeOrder \in Orders(DOMAIN d.bridgesToRemove),
              vlanOrder \in Orders(vlanToRemove(r.validConfigs, settings, s.vlans)) :
                queue' = [queue EXCEPT ![p] =
                    applyConfig(gifOrder, bridgeOrder, vlanOrder, r.validConfigs,
                                settings, s.gifs, s.vlans, s.bridges, forceReset)]

\* a failure of a command the host would have accepted
Spurious(c, r) == r = "fail" /\ Results(live, c) # {"fail"}

\* what is left of a program when the command at its head failed: `continue`
\* skips the rest of the spec, a failure that is only logged skips nothing
afterFailureAborts(q) == <<>>
afterFailure(q) == SubSeq(q, 2 + Head(q).skip, Len(q))

\* runCommand on the step at the head of the program, with result r
RunHead(p, r) ==
    LET step == Head(queue[p])
    IN  /\ r \in Results(live, step.c)
        /\ Spurious(step.c, r) => failures < MaxFailures
        /\ failures' = IF Spurious(step.c, r) THEN failures + 1 ELSE failures
        /\ live' = IF r = "ok" THEN Effect(live, step.c) ELSE live
        /\ issued' = [issued EXCEPT ![p] = Append(@, [c |-> step.c, result |-> r])]

Forget(p) ==
    /\ snap' = [snap EXCEPT ![p] = NoSnapshot]
    /\ fetched' = [fetched EXCEPT ![p] = NotFetched]
    /\ plan' = [plan EXCEPT ![p] = NoDiff]
    /\ issued' = [issued EXCEPT ![p] = <<>>]
    /\ queue' = [queue EXCEPT ![p] = <<>>]

env == <<document, dns, ifAddrs, settings>>

\* 877-881: done is not closed, so the select takes its default branch;
\* getCurrentInterfaces
LoopSnapshot ==
    /\ ~exited /\ pc["loop"] = "idle" /\ ~done
    /\ TakeSnapshot("loop")
    /\ pc' = [pc EXCEPT !["loop"] = "fetch"]
    /\ UNCHANGED <<env, live, fetched, plan, queue, prevClean, sigChan, sig,
                   destroyed, done>>
    /\ UNCHANGED exited
    /\ passes < MaxPasses /\ passes' = passes + 1
    /\ UNCHANGED <<failures, signals, asked, compared>>
    /\ UNCHANGED <<run, slack>>

\* 882-893: fetchConfig succeeded; calculateDiff, notifyConfigDiff
LoopFetch ==
    /\ ~exited /\ pc["loop"] = "fetch"
    /\ \E r \in {fetchConfig(document, snap["loop"].gifs, settings, dns, ifAddrs)} :
            /\ ~r.err
            /\ PlanPass("loop", r, snap["loop"], FALSE, reports(r))
    /\ pc' = [pc EXCEPT !["loop"] = "apply"]
    /\ UNCHANGED <<env, live, snap, issued, prevClean, sigChan, sig, destroyed, done>>
    /\ UNCHANGED exited
    /\ UNCHANGED <<failures, passes, signals, asked, compared>>
    /\ UNCHANGED run

\* fetchConfig, calculateDiff and applyConfig called with forceReset = true
\* (525, 584, 603: the `!forceReset` conjuncts are false)
LoopFetchForced ==
    /\ ~exited /\ pc["loop"] = "fetch"
    /\ \E r \in {fetchConfig(document, snap["loop"].gifs, settings, dns, ifAddrs)} :
            /\ ~r.err
            /\ PlanPass("loop", r, snap["loop"], TRUE, reports(r))
    /\ pc' = [pc EXCEPT !["loop"] = "apply"]
    /\ UNCHANGED <<env, live, snap, issued, prevClean, sigChan, sig, destroyed, done>>
    /\ UNCHANGED exited
    /\ UNCHANGED <<failures, passes, signals, asked, compared>>
    /\ UNCHANGED run

\* 885-887: after the sleep, `continue` takes the goroutine back to the select
stopAfterFetchFailure == "returned"
retryAfterFetchFailure == "idle"

\* 883-888: fetchConfig failed; sleep and start over
LoopFetchFailed ==
    /\ ~exited /\ pc["loop"] = "fetch"
    /\ fetchConfig(document, snap["loop"].gifs, settings, dns, ifAddrs).err
    /\ Forget("loop")
    /\ prevClean' = FALSE
    /\ pc' = [pc EXCEPT !["loop"] = retryAfterFetchFailure]
    /\ UNCHANGED <<env, live, sigChan, sig, destroyed, done, exited>>
    /\ UNCHANGED <<failures, passes, signals, asked, compared>>
    /\ UNCHANGED run
    /\ Spawn(Handle(1, settings))

\* 894: one command of applyConfig returns nil
LoopCommandOK ==
    /\ ~exited /\ pc["loop"] = "apply" /\ queue["loop"] # <<>>
    /\ \E r \in {"ok", "exists"} : RunHead("loop", r)
    /\ queue' = [queue EXCEPT !["loop"] = Tail(@)]
    /\ UNCHANGED <<env, pc, snap, fetched, plan, prevClean, sigChan, sig, destroyed,
                   done, exited>>
    /\ UNCHANGED <<passes, signals, asked, compared>>
    /\ UNCHANGED run
    /\ \E retried \in 0..(MaxAttempts - 1) : Spawn(Handle(retried, settings))

\* 894: one command of applyConfig fails after its 3 attempts
LoopCommandFailed ==
    /\ ~exited /\ pc["loop"] = "apply" /\ queue["loop"] # <<>>
    /\ RunHead("loop", "fail")
    /\ queue' = [queue EXCEPT !["loop"] = afterFailure(@)]
    /\ UNCHANGED <<env, pc, snap, fetched, plan, prevClean, sigChan, sig, destroyed,
                   done, exited>>
    /\ UNCHANGED <<passes, signals, asked, compared>>
    /\ UNCHANGED run
    /\ Spawn(Handle(MaxAttempts + 1, settings))

\* 896-897: applyConfig returned; sleep the interval
LoopFinish ==
    /\ ~exited /\ pc["loop"] = "apply" /\ queue["loop"] = <<>>
    /\ prevClean' = AllSucceeded(issued["loop"])
    /\ Forget("loop")
    /\ pc' = [pc EXCEPT !["loop"] = "idle"]
    /\ UNCHANGED <<env, live, sigChan, sig, destroyed, done, exited>>
    /\ UNCHANGED <<failures, passes, signals, asked, compared>>
    /\ UNCHANGED <<run, slack>>

\* 878-879: the goroutine sees done closed
LoopReturn ==
    /\ ~exited /\ pc["loop"] = "idle" /\ done
    /\ pc' = [pc EXCEPT !["loop"] = "returned"]
    /\ UNCHANGED <<env, live, snap, fetched, plan, queue, issued, prevClean, sigChan,
                   sig, destroyed, done, exited>>
    /\ UNCHANGED <<failures, passes, signals, asked, compared>>
    /\ UNCHANGED <<run, slack>>

\* the goroutine is sequential: at most one of its steps is possible at a time
LoopStep ==
    \/ LoopSnapshot
    \/ LoopFetch
    \/ LoopFetchFailed
    \/ LoopCommandOK
    \/ LoopCommandFailed
    \/ LoopFinish

\* signal.Notify delivers into the one-slot channel (811-812) without ever
\* blocking: a signal that finds the slot taken is dropped
Deliver(limit) ==
    /\ ~exited
    /\ \E s \in Signals :
            /\ sigChan' = IF sigChan = <<>> THEN <<s>> ELSE sigChan
            /\ asked' = (asked \/ s \in {"SIGINT", "SIGTERM"})
    /\ UNCHANGED <<env, live, pc, snap, fetched, plan, queue, issued, prevClean, sig,
                   destroyed, done, exited>>
    /\ signals < limit /\ signals' = signals + 1
    /\ UNCHANGED <<failures, passes, compared>>
    /\ UNCHANGED <<run, slack>>

Signal == Deliver(MaxSignals)
SignalBurst == Deliver(MaxBurst)

\* 903-904: sig := <-sigChan
SigReceive ==
    /\ ~exited /\ pc["sig"] = "wait" /\ sigChan # <<>>
    /\ sig' = Head(sigChan)
    /\ sigChan' = <<>>
    /\ pc' = [pc EXCEPT !["sig"] =
                IF Head(sigChan) \in {"SIGINT", "SIGTERM"} THEN "terminate"
                ELSE "snapshot"]
    /\ UNCHANGED <<env, live, snap, fetched, plan, queue, issued, prevClean,
                   destroyed, done, exited>>
    /\ UNCHANGED <<failures, passes, signals, asked, compared>>
    /\ UNCHANGED <<run, slack>>

\* 907: getCurrentInterfaces after SIGHUP
SigSnapshot ==
    /\ ~exited /\ pc["sig"] = "snapshot" /\ sig = "SIGHUP"
    /\ TakeSnapshot("sig")
    /\ pc' = [pc EXCEPT !["sig"] = "fetch"]
    /\ UNCHANGED <<env, live, fetched, plan, queue, prevClean, sigChan, sig,
                   destroyed, done, exited>>
    /\ UNCHANGED <<failures, passes, signals, asked, compared>>
    /\ UNCHANGED <<run, slack>>

\* 908-913: fetchConfig succeeded after SIGHUP
SigFetch ==
    /\ ~exited /\ pc["sig"] = "fetch"
    /\ \E r \in {fetchConfig(document, snap["sig"].gifs, settings, dns, ifAddrs)} :
            /\ ~r.err
            /\ PlanPass("sig", r, snap["sig"], FALSE, reports(r))
    /\ pc' = [pc EXCEPT !["sig"] = "apply"]
    /\ UNCHANGED <<env, live, snap, issued, prevClean, sigChan, sig, destroyed, done,
                   exited>>
    /\ UNCHANGED <<failures, passes, signals, asked, compared>>
    /\ UNCHANGED run

\* 909-910, 922-923, 937-938: fetchConfig failed; back to waiting for a signal
SigFetchFailed ==
    /\ ~exited /\ pc["sig"] \in {"fetch", "refetch"}
    /\ fetchConfig(document, snap["sig"].gifs, settings, dns, ifAddrs).err
    /\ Forget("sig")
    /\ sig' = ""
    /\ destroyed' = {}
    /\ pc' = [pc EXCEPT !["sig"] = "wait"]
    /\ UNCHANGED <<env, live, prevClean, sigChan, done, exited>>
    /\ UNCHANGED <<failures, passes, signals, asked, compared>>
    /\ UNCHANGED run
    /\ Spawn(Handle(1, settings))

\* 919-920: getCurrentInterfaces after SIGUSR1, then resetVLANs starts
SigSnapshotVLANs ==
    /\ ~exited /\ pc["sig"] = "snapshot" /\ sig = "SIGUSR1"
    /\ TakeSnapshot("sig")
    /\ \E vlanOrder \in Orders(resetVLANsTargets(settings.PhysicalIface,
                                                 getCurrentInterfaces(live).vlans)) :
            queue' = [queue EXCEPT !["sig"] =
                        resetVLANs(settings.PhysicalIface, vlanOrder)]
    /\ destroyed' = {}
    /\ pc' = [pc EXCEPT !["sig"] = "teardown"]
    /\ UNCHANGED <<env, live, fetched, plan, prevClean, sigChan, sig, done, exited>>
    /\ UNCHANGED <<failures, passes, signals, asked, compared>>
    /\ UNCHANGED <<run, slack>>

\* 934-935: getCurrentInterfaces after SIGUSR2, then resetAllInterfaces starts
SigSnapshotAll ==
    /\ ~exited /\ pc["sig"] = "snapshot" /\ sig = "SIGUSR2"
    /\ TakeSnapshot("sig")
    /\ LET s == getCurrentInterfaces(live)
       IN  \E gifOrder \in Orders(DOMAIN s.gifs), vlanOrder \in Orders(DOMAIN s.vlans),
              bridgeOrder \in Orders(DOMAIN s.bridges) :
                queue' = [queue EXCEPT !["sig"] =
                            resetAllInterfaces(gifOrder, vlanOrder, bridgeOrder)]
    /\ destroyed' = {}
    /\ pc' = [pc EXCEPT !["sig"] = "teardown"]
    /\ UNCHANGED <<env, live, fetched, plan, prevClean, sigChan, sig, done, exited>>
    /\ UNCHANGED <<failures, passes, signals, asked, compared>>
    /\ UNCHANGED <<run, slack>>

\* one command of the signal loop's applyConfig or reset returns nil
SigCommandOK ==
    /\ ~exited /\ pc["sig"] \in {"teardown", "apply"} /\ queue["sig"] # <<>>
    /\ \E r \in {"ok", "exists"} : RunHead("sig", r)
    /\ queue' = [queue EXCEPT !["sig"] = Tail(@)]
    /\ destroyed' = IF pc["sig"] = "teardown"
                    THEN destroyed \cup {Head(queue["sig"]).c.iface}
                    ELSE destroyed
    /\ UNCHANGED <<env, pc, snap, fetched, plan, prevClean, sigChan, sig, done, exited>>
    /\ UNCHANGED <<passes, signals, asked, compared>>
    /\ UNCHANGED run
    /\ \E retried \in 0..(MaxAttempts - 1) : Spawn(Handle(retried, settings))

\* a command of the signal loop's applyConfig fails after its 3 attempts
SigCommandFailed ==
    /\ ~exited /\ pc["sig"] = "apply" /\ queue["sig"] # <<>>
    /\ RunHead("sig", "fail")
    /\ queue' = [queue EXCEPT !["sig"] = afterFailure(@)]
    /\ UNCHANGED <<env, pc, snap, fetched, plan, prevClean, sigChan, sig, destroyed,
                   done, exited>>
    /\ UNCHANGED <<passes, signals, asked, compared>>
    /\ UNCHANGED run
    /\ Spawn(Handle(MaxAttempts + 1, settings))

\* 739-742, 763-782: a destroy of a reset fails; the reset returns the error and
\* the signal loop goes back to waiting (920, 935: err != nil)
SigResetFailedCarriesOn ==
    /\ ~exited /\ pc["sig"] = "teardown" /\ queue["sig"] # <<>>
    /\ RunHead("sig", "fail")
    /\ queue' = [queue EXCEPT !["sig"] = Tail(@)]
    /\ UNCHANGED <<env, pc, snap, fetched, plan, prevClean, sigChan, sig, destroyed,
                   done, exited>>
    /\ UNCHANGED <<passes, signals, asked, compared>>
    /\ UNCHANGED <<run, slack>>
SigResetFailed ==
    /\ ~exited /\ pc["sig"] = "teardown" /\ queue["sig"] # <<>>
    /\ Head(queue["sig"]).abort
    /\ "fail" \in Results(live, Head(queue["sig"]).c)
    /\ Spurious(Head(queue["sig"]).c, "fail") => failures < MaxFailures
    /\ failures' = IF Spurious(Head(queue["sig"]).c, "fail") THEN failures + 1
                    ELSE failures
    /\ Forget("sig")
    /\ sig' = ""
    /\ destroyed' = {}
    /\ pc' = [pc EXCEPT !["sig"] = "wait"]
    /\ UNCHANGED <<env, live, prevClean, sigChan, done, exited>>
    /\ UNCHANGED <<passes, signals, asked, compared>>
    /\ UNCHANGED run
    /\ Spawn(Handle(MaxAttempts + 1, settings))

\* 747, 786: every destroy done; wait for the removal if anything was destroyed
SigTeardownDone ==
    /\ ~exited /\ pc["sig"] = "teardown" /\ queue["sig"] = <<>>
    /\ pc' = [pc EXCEPT !["sig"] = IF destroyed # {} THEN "poll" ELSE "refetch"]
    /\ UNCHANGED <<env, live, snap, fetched, plan, queue, issued, prevClean, sigChan,
                   sig, destroyed, done, exited>>
    /\ UNCHANGED <<failures, passes, signals, asked, compared>>
    /\ UNCHANGED <<run, slack>>

\* 723-726: a listing shows none of the destroyed names
SigPollGone ==
    /\ ~exited /\ pc["sig"] = "poll"
    /\ remaining(live, destroyed) = {}
    /\ pc' = [pc EXCEPT !["sig"] = "refetch"]
    /\ UNCHANGED <<env, live, snap, fetched, plan, queue, issued, prevClean, sigChan,
                   sig, destroyed, done, exited>>
    /\ UNCHANGED <<failures, passes, signals, asked, compared>>
    /\ UNCHANGED <<run, slack>>

\* 709, 730-731: the names are still listed when the 10 seconds are over; the
\* reset returns the error (748-751, 787-790)
SigPollTimeout ==
    /\ ~exited /\ pc["sig"] = "poll"
    /\ remaining(live, destroyed) # {}
    /\ Forget("sig")
    /\ sig' = ""
    /\ destroyed' = {}
    /\ pc' = [pc EXCEPT !["sig"] = "wait"]
    /\ UNCHANGED <<env, live, prevClean, sigChan, done, exited>>
    /\ UNCHANGED <<failures, passes, signals, asked, compared>>
    /\ UNCHANGED run
    /\ Spawn(Handle(2, settings))

\* 921, 936: fetchConfig with the gifs of the snapshot taken before the reset
SigRefetch ==
    /\ ~exited /\ pc["sig"] = "refetch"
    /\ \E r \in {fetchConfig(document, snap["sig"].gifs, settings, dns, ifAddrs)} :
            /\ ~r.err
            /\ fetched' = [fetched EXCEPT !["sig"] = r]
            /\ Spawn(Handle(reports(r), settings))
    /\ pc' = [pc EXCEPT !["sig"] = "resnapshot"]
    /\ UNCHANGED <<env, live, snap, plan, queue, issued, prevClean, sigChan, sig,
                   destroyed, done, exited>>
    /\ UNCHANGED <<failures, passes, signals, asked, compared>>
    /\ UNCHANGED run

\* 925-927, 940-942: getCurrentInterfaces again, calculateDiff, notifyConfigDiff
SigResnapshot ==
    /\ ~exited /\ pc["sig"] = "resnapshot"
    /\ snap' = [snap EXCEPT !["sig"] = getCurrentInterfaces(live)]
    /\ \E s \in {getCurrentInterfaces(live)} :
            PlanPass("sig", fetched["sig"], s, FALSE, 0)
    /\ pc' = [pc EXCEPT !["sig"] = "apply"]
    /\ UNCHANGED <<env, live, issued, prevClean, sigChan, sig, destroyed,
                   done, exited>>
    /\ UNCHANGED <<failures, passes, signals, asked, compared>>
    /\ UNCHANGED run

\* 915, 929, 944: applyConfig returned; back to waiting for a signal
SigFinish ==
    /\ ~exited /\ pc["sig"] = "apply" /\ queue["sig"] = <<>>
    /\ Forget("sig")
    /\ sig' = ""
    /\ destroyed' = {}
    /\ pc' = [pc EXCEPT !["sig"] = "wait"]
    /\ UNCHANGED <<env, live, prevClean, sigChan, done, exited>>
    /\ UNCHANGED <<failures, passes, signals, asked, compared>>
    /\ UNCHANGED <<run, slack>>

\* 948: close(done)
SigCloseDone ==
    /\ ~exited /\ pc["sig"] = "terminate"
    /\ done' = TRUE
    /\ pc' = [pc EXCEPT !["sig"] = "exit"]
    /\ UNCHANGED <<env, live, snap, fetched, plan, queue, issued, prevClean, sigChan,
                   sig, destroyed, exited>>
    /\ UNCHANGED <<failures, passes, signals, asked, compared>>
    /\ UNCHANGED <<run, slack>>

\* 952: os.Exit(exitCode) ends the process, the periodic goroutine included
SigExit ==
    /\ ~exited /\ pc["sig"] = "exit"
    /\ exited' = TRUE
    /\ UNCHANGED <<env, live, pc, snap, fetched, plan, queue, issued, prevClean,
                   sigChan, sig, destroyed, done>>
    /\ UNCHANGED <<failures, passes, signals, asked, compared>>
    /\ UNCHANGED <<run, slack>>

(***************************************************************************)
(* Initial states.                                                         *)
(***************************************************************************)
TunnelConfig(id, src, dst, host, vlan, ver, desc) ==
    [TunnelID |-> id, SrcAddr |-> src, DstAddr |-> dst, DstHostname |-> host,
     VlanID |-> vlan, IPVersion |-> ver, Description |-> desc]

Settings(iface, addr) ==
    [DefaultSrcIface |-> iface, DefaultSrcAddr |-> addr, PhysicalIface |-> PhysicalIface,
     SlackWebhookURL |-> ""]

SeqsUpTo(S, n) == UNION {[1..k -> S] : k \in 0..n}

\* what net.LookupIP can answer: an error, or at least one address
MaxAnswers == 2
Answers ==
    {[err |-> TRUE, ips |-> <<>>]}
    \cup {[err |-> FALSE, ips |-> ips] :
            ips \in {o \in SeqsUpTo(IPValues, MaxAnswers) :
                        o # <<>> /\ \A i, j \in DOMAIN o : o[i] = o[j] => i = j}}

LiveGif(fam, src, dst, descr) == [fam |-> fam, src |-> src, dst |-> dst, descr |-> descr]
NoInterfaces == [gifs |-> <<>>, vlans |-> <<>>, bridges |-> <<>>]
OnlyGifs(g) == [gifs |-> g, vlans |-> <<>>, bridges |-> <<>>]

Idle ==
    /\ pc = [p \in Paths |-> IF p = "loop" THEN "idle" ELSE "wait"]
    /\ snap = [p \in Paths |-> NoSnapshot]
    /\ fetched = [p \in Paths |-> NotFetched]
    /\ plan = [p \in Paths |-> NoDiff]
    /\ queue = [p \in Paths |-> <<>>]
    /\ issued = [p \in Paths |-> <<>>]
    /\ prevClean = FALSE
    /\ sigChan = <<>>
    /\ sig = ""
    /\ destroyed = {}
    /\ done = FALSE
    /\ exited = FALSE
    /\ failures = 0
    /\ passes = 0
    /\ signals = 0
    /\ asked = FALSE

\* One entry, every way of resolving its addresses
ResolveEntries ==
    {TunnelConfig("1", src, dst, host, "100", ver, "") :
        src \in {"", S4, S6}, dst \in {"", D4a, D6a}, host \in {"", HostName},
        ver \in {"", "4", "6", "5"}}
    \cup {TunnelConfig("", S4, D4a, "", "100", "", ""),
          TunnelConfig("1", S4, D4a, "", "", "", "")}

ResolveGifs ==
    {<<>>} \cup
    {[g \in {GifName("1")} |-> d] :
        d \in {LiveGif("none", "", "", ""), LiveGif("inet", S4, D4a, ""),
               LiveGif("inet", S4, D4b, ""), LiveGif("inet6", S6, D6a, "")}}

ResolveDefaults ==
    {<<Settings("", a), <<>>>> : a \in {"", S4, S6}}
    \cup {<<Settings(DefaultIfaceName, ""), l>> : l \in {<<>>, <<S4>>, <<S6, S4>>}}
    \cup {<<Settings(DefaultIfaceName, S4), <<>>>>}

InitResolve ==
    /\ document \in {[readable |-> TRUE, configs |-> <<e>>] : e \in ResolveEntries}
    /\ dns \in [{HostName} -> Answers]
    /\ \E d \in ResolveDefaults : settings = d[1] /\ ifAddrs = d[2]
    /\ live \in {OnlyGifs(g) : g \in ResolveGifs}
    /\ Idle
    /\ compared = NotCompared
    /\ slack = Quiet
    /\ run = NoRun

\* Documents of several entries that collide in tunnel_id, dst_addr or vlan_id
DuplicateEntries ==
    {TunnelConfig(id, S4, dst, "", vlan, "", "") :
        id \in {"1", "2"}, dst \in {D4a, D4b}, vlan \in {"100", "101"}}
    \cup {TunnelConfig(id, S4, "", HostName, vlan, "", "") :
            id \in {"1", "2"}, vlan \in {"100", "101"}}

DuplicateHosts ==
    {<<[err |-> FALSE, ips |-> <<[len |-> 4, n |-> 1]>>], <<>>>>,
     <<[err |-> TRUE, ips |-> <<>>],
       [g \in {GifName("1")} |-> LiveGif("inet", S4, D4b, "")]>>,
     <<[err |-> TRUE, ips |-> <<>>],
       [g \in {GifName("1"), GifName("2")} |-> LiveGif("none", "", "", "")]>>}

InitDuplicates ==
    /\ document \in {[readable |-> TRUE, configs |-> c] :
                        c \in SeqsUpTo(DuplicateEntries, MaxDoc)}
    /\ \E h \in DuplicateHosts :
            /\ dns = [n \in {HostName} |-> h[1]]
            /\ live = OnlyGifs(h[2])
    /\ settings = Settings("", "")
    /\ ifAddrs = <<>>
    /\ Idle
    /\ compared = NotCompared
    /\ slack = Quiet
    /\ run = NoRun

\* The validator alone: one snapshot, one fetchConfig
NextValidate == LoopSnapshot \/ LoopFetch

SpecResolve == InitResolve /\ [][NextValidate]_vars
SpecDuplicates == InitDuplicates /\ [][NextValidate]_vars

(***************************************************************************)
(* Reconciliation passes.  Documents of at most MaxSpecs entries, hosts    *)
(* that are empty, converged, drifted or carry interfaces nobody asked     *)
(* for, and a hostname that resolves or does not.                          *)
(***************************************************************************)
PassEntries ==
    {TunnelConfig("1", S4, D4a, "", "100", "", desc) : desc \in {"", "prod", "prod "}}
    \cup {TunnelConfig("1", S4, "", HostName, "100", "", ""),
          TunnelConfig("1", "", D4a, "", "100", "", ""),
          TunnelConfig("1", S4, D6a, "", "100", "", ""),
          TunnelConfig("2", S6, D6a, "", "101", "6", "")}

PassDocuments ==
    {[readable |-> TRUE, configs |-> c] : c \in SeqsUpTo(PassEntries, MaxSpecs)}
    \cup {[readable |-> FALSE, configs |-> <<>>]}

\* gif1, em2.100 and bridge1 as a pass for tunnel 1 leaves them
Converged(descr) ==
    [gifs |-> [g \in {GifName("1")} |-> LiveGif("inet", S4, D4a, descr)],
     vlans |-> [v \in {VlanName(PhysicalIface, "100")} |-> "100"],
     bridges |-> [b \in {BridgeName("1")} |->
                    <<GifName("1"), VlanName(PhysicalIface, "100")>>]]

\* the same with the members of bridge1 listed the other way round
Reordered ==
    [Converged("") EXCEPT !.bridges =
        [b \in {BridgeName("1")} |-> <<VlanName(PhysicalIface, "100"), GifName("1")>>]]

\* another destination, another tag, a bridge that lost its gif
Drifted ==
    [gifs |-> [g \in {GifName("1")} |-> LiveGif("inet", S4, D4b, "")],
     vlans |-> [v \in {VlanName(PhysicalIface, "100")} |-> "101"],
     bridges |-> [b \in {BridgeName("1")} |-> <<VlanName(PhysicalIface, "100")>>]]

\* a gif and a bridge of a tunnel nobody asked for, a VLAN of another parent
Stale ==
    [gifs |-> [g \in {GifName("2")} |-> LiveGif("none", "", "", "")],
     vlans |-> [v \in {VlanName(OtherIface, "200")} |-> "200"],
     bridges |-> [b \in {BridgeName("2")} |-> <<>>]]

\* gif1 described as the document wants it, with another destination
Moved ==
    [Converged("prod") EXCEPT
        !.gifs = [g \in {GifName("1")} |-> LiveGif("inet", S4, D4b, "prod")]]

PassHosts ==
    {NoInterfaces, Converged(""), Converged("old"), Converged("prod"), Reordered,
     Drifted, Stale, Moved}

PassAnswers ==
    {[err |-> FALSE, ips |-> <<[len |-> 4, n |-> 1]>>], [err |-> TRUE, ips |-> <<>>]}

InitLoop ==
    /\ document \in PassDocuments
    /\ dns \in [{HostName} -> PassAnswers]
    /\ live \in PassHosts
    /\ settings = Settings("", "")
    /\ ifAddrs = <<>>
    /\ Idle
    /\ compared = NotCompared
    /\ slack = Quiet
    /\ run = NoRun

\* The periodic goroutine alone: nothing else touches the host, the document
\* or the answers of the resolver
NextLoop ==
    \/ LoopSnapshot
    \/ LoopFetch
    \/ LoopFetchFailed
    \/ LoopCommandOK
    \/ LoopCommandFailed
    \/ LoopFinish

SpecLoop == InitLoop /\ [][NextLoop]_vars

\* bridge1 with the physical interface of another network as its only member
Foreign ==
    [Converged("") EXCEPT !.bridges = [b \in {BridgeName("1")} |-> <<OtherIface>>]]

\* Passes whose applyConfig is called with forceReset = true
InitForced ==
    /\ document \in {d \in PassDocuments : d.readable}
    /\ dns \in [{HostName} -> PassAnswers]
    /\ live \in PassHosts \cup {Foreign}
    /\ settings = Settings("", "")
    /\ ifAddrs = <<>>
    /\ Idle
    /\ compared = NotCompared
    /\ slack = Quiet
    /\ run = NoRun

NextForced ==
    \/ LoopSnapshot
    \/ LoopFetchForced
    \/ LoopCommandOK
    \/ LoopCommandFailed
    \/ LoopFinish

SpecForced == InitForced /\ [][NextForced]_vars

\* em2.100 carries another tag while bridge1 has its two members
Retagged ==
    [Converged("") EXCEPT !.vlans = [v \in {VlanName(PhysicalIface, "100")} |-> "101"]]

\* The periodic goroutine alone on a readable document, every command doing
\* what it is asked to do; the goroutine is scheduled again and again
InitConverge ==
    /\ document \in {d \in PassDocuments : d.readable}
    /\ dns \in [{HostName} -> PassAnswers]
    /\ live \in PassHosts \cup {Foreign, Retagged}
    /\ settings = Settings("", "")
    /\ ifAddrs = <<>>
    /\ Idle
    /\ compared = NotCompared
    /\ slack = Quiet
    /\ run = NoRun

NextConverge ==
    \/ LoopSnapshot
    \/ LoopFetch
    \/ LoopCommandOK
    \/ LoopFinish

SpecConverge == InitConverge /\ [][NextConverge]_vars /\ WF_vars(NextConverge)

\* The periodic goroutine with a webhook configured: the webhook answers,
\* refuses, or never answers
InitNotify ==
    /\ document \in {[readable |-> TRUE,
                       configs |-> <<TunnelConfig("1", S4, D4a, "", "100", "", "")>>],
                      [readable |-> TRUE,
                       configs |-> <<TunnelConfig("1", S4, "", HostName, "100", "", "")>>],
                      [readable |-> FALSE, configs |-> <<>>]}
    /\ dns = [n \in {HostName} |-> [err |-> TRUE, ips |-> <<>>]]
    /\ live \in {NoInterfaces, Converged(""), Drifted, Stale}
    /\ settings = [Settings("", "") EXCEPT !.SlackWebhookURL = WebhookURL]
    /\ ifAddrs = <<>>
    /\ Idle
    /\ compared = NotCompared
    /\ slack \in [sink : Sinks, posts : {0}]
    /\ run = NoRun

NextNotify ==
    \/ LoopSnapshot
    \/ LoopFetch
    \/ LoopFetchFailed
    \/ LoopCommandOK
    \/ LoopCommandFailed
    \/ LoopFinish
    \/ PostAnswered
    \/ PostFailed

SpecNotify == InitNotify /\ [][NextNotify]_vars /\ WF_vars(LoopStep)

\* runCommand alone, on every course its attempts can take
InitRunCommand ==
    /\ document = [readable |-> FALSE, configs |-> <<>>]
    /\ dns = [n \in {HostName} |-> [err |-> TRUE, ips |-> <<>>]]
    /\ live = NoInterfaces
    /\ settings = Settings("", "")
    /\ ifAddrs = <<>>
    /\ Idle
    /\ compared = NotCompared
    /\ slack = Quiet
    /\ run \in {[outcomes |-> o, made |-> 0, result |-> ""] :
                    o \in [1..MaxAttempts -> AttemptOutcomes]}

NextRunCommand ==
    \/ RunAttemptSucceeded
    \/ RunAttemptAlreadyExists
    \/ RunAttemptFailed
    \/ RunGiveUp

SpecRunCommand == InitRunCommand /\ [][NextRunCommand]_vars

\* membersEqual alone, called on two lists of member names and on the same
\* two lists the other way round; a name may occur twice in a list
MembersEqualCall ==
    /\ compared.result = "pending"
    /\ compared' = [compared EXCEPT
                        !.result = IF membersEqual(compared.m1, compared.m2)
                                   THEN "true" ELSE "false",
                        !.swapped = IF membersEqual(compared.m2, compared.m1)
                                    THEN "true" ELSE "false"]
    /\ UNCHANGED <<outside, run, slack>>

InitMembers ==
    /\ document = [readable |-> FALSE, configs |-> <<>>]
    /\ dns = [n \in {HostName} |-> [err |-> TRUE, ips |-> <<>>]]
    /\ live = NoInterfaces
    /\ settings = Settings("", "")
    /\ ifAddrs = <<>>
    /\ Idle
    /\ \E m1, m2 \in SeqsUpTo({GifName("1"), VlanName(PhysicalIface, "100"), OtherIface},
                               MaxMembers) :
            compared = [m1 |-> m1, m2 |-> m2, result |-> "pending", swapped |-> "pending"]
    /\ slack = Quiet
    /\ run = NoRun

SpecMembers == InitMembers /\ [][MembersEqualCall]_vars

\* The whole process, the periodic goroutine and the signal loop, started on
\* a host that carries tunnel 1 (with or without a description of its own)
\* with a document of that tunnel or with no readable document
Init ==
    /\ document \in {[readable |-> TRUE,
                       configs |-> <<TunnelConfig("1", S4, D4a, "", "100", "", "")>>],
                      [readable |-> FALSE, configs |-> <<>>]}
    /\ dns = [n \in {HostName} |-> [err |-> TRUE, ips |-> <<>>]]
    /\ live \in {Converged(""), Converged("old")}
    /\ settings = Settings("", "")
    /\ ifAddrs = <<>>
    /\ Idle
    /\ compared = NotCompared
    /\ slack = Quiet
    /\ run = NoRun

Next ==
    \/ LoopSnapshot
    \/ LoopFetch
    \/ LoopFetchFailed
    \/ LoopCommandOK
    \/ LoopCommandFailed
    \/ LoopFinish
    \/ LoopReturn
    \/ Signal
    \/ SigReceive
    \/ SigSnapshot
    \/ SigFetch
    \/ SigFetchFailed
    \/ SigSnapshotVLANs
    \/ SigSnapshotAll
    \/ SigCommandOK
    \/ SigCommandFailed
    \/ SigResetFailed
    \/ SigTeardownDone
    \/ SigPollGone
    \/ SigPollTimeout
    \/ SigRefetch
    \/ SigResnapshot
    \/ SigFinish
    \/ SigCloseDone
    \/ SigExit

Spec == Init /\ [][Next]_vars

\* The signal loop alone, on a host nothing else writes to: either tunnel 1
\* as a pass leaves it, or a gif and a bridge with a VLAN interface of another
\* physical interface.  The loop is scheduled again and again and the
\* commands it runs return.
SigStep ==
    \/ SigReceive
    \/ SigSnapshot
    \/ SigFetch
    \/ SigFetchFailed
    \/ SigSnapshotVLANs
    \/ SigSnapshotAll
    \/ SigCommandOK
    \/ SigCommandFailed
    \/ SigResetFailed
    \/ SigTeardownDone
    \/ SigPollGone
    \/ SigRefetch
    \/ SigResnapshot
    \/ SigFinish
    \/ SigCloseDone
    \/ SigExit

InitSignals ==
    /\ document \in {[readable |-> TRUE,
                       configs |-> <<TunnelConfig("1", S4, D4a, "", "100", "", "")>>],
                      [readable |-> FALSE, configs |-> <<>>]}
    /\ dns = [n \in {HostName} |-> [err |-> TRUE, ips |-> <<>>]]
    /\ live \in {Converged(""), Stale}
    /\ settings = Settings("", "")
    /\ ifAddrs = <<>>
    /\ Idle
    /\ compared = NotCompared
    /\ slack = Quiet
    /\ run = NoRun

SpecSignals == InitSignals /\ [][SignalBurst \/ SigStep]_vars /\ WF_vars(SigStep)

\* The whole process on documents that make the validator reject an entry
\* (no source address), fall back on the observed destination (a hostname
\* that does not resolve) or fail (no readable document).  The goroutine of
\* the periodic loop is scheduled again and again, its sleeps end and the
\* commands it runs return.
InitLive ==
    /\ document \in {[readable |-> TRUE,
                       configs |-> <<TunnelConfig("1", S4, "", HostName, "100", "", "")>>],
                      [readable |-> TRUE,
                       configs |-> <<TunnelConfig("1", "", D4a, "", "100", "", "")>>],
                      [readable |-> FALSE, configs |-> <<>>]}
    /\ dns = [n \in {HostName} |-> [err |-> TRUE, ips |-> <<>>]]
    /\ live = Converged("old")
    /\ settings = Settings("", "")
    /\ ifAddrs = <<>>
    /\ Idle
    /\ compared = NotCompared
    /\ slack = Quiet
    /\ run = NoRun

SpecLive == InitLive /\ [][Next]_vars /\ WF_vars(LoopStep)

(***************************************************************************)
(* Properties of the validator.  They are read off the state right after   *)
(* fetchConfig returned in the periodic loop.                              *)
(***************************************************************************)
Validated == pc["loop"] = "apply"
Fates == fetched["loop"].fates
Retained == fetched["loop"].validConfigs
Accepted(i) == Fates[i].status = "accepted"
Resolved(i) == Fates[i].resolved
DuplicateReasons == {"duplicate tunnel_id", "duplicate dst_addr", "duplicate vlan_id"}
ObservedGifs == snap["loop"].gifs
HasGif(i) == GifName(Fates[i].raw.TunnelID) \in DOMAIN ObservedGifs
ObservedDst(i) == ObservedGifs[GifName(Fates[i].raw.TunnelID)].Dst
LookupFailed(i) == Fates[i].lookedUp /\ dns[Fates[i].raw.DstHostname].err
LookupAnswered(i) == Fates[i].lookedUp /\ ~dns[Fates[i].raw.DstHostname].err
ResolvedIPs(i) == dns[Fates[i].raw.DstHostname].ips
ResolvedTexts(i) == {IPString(ResolvedIPs(i)[k]) : k \in DOMAIN ResolvedIPs(i)}

\* C4: every spec fetchConfig returns has a non-empty tunnel_id, vlan_id,
\* src_addr and dst_addr, whatever the document, the DNS answers and the
\* observed gifs (a gif without tunnel addresses included).
C4_RetainedFieldsNonEmpty ==
    Validated =>
        \A i \in DOMAIN Retained :
            /\ Retained[i].TunnelID # ""
            /\ Retained[i].VlanID # ""
            /\ Retained[i].SrcAddr # ""
            /\ Retained[i].DstAddr # ""

\* C5: an entry that passed the field checks and the resolution is accepted
\* if and only if its tunnel_id, resolved dst_addr and vlan_id each differ from
\* those of every entry accepted before it; so the three fields are pairwise
\* distinct in the returned list.
C5_AcceptedIffNoEarlierDuplicate ==
    Validated =>
        /\ \A i \in DOMAIN Fates :
              Resolved(i) =>
                (Accepted(i) <=>
                    \A j \in 1..(i - 1) :
                        Accepted(j) =>
                            /\ Fates[j].config.TunnelID # Fates[i].config.TunnelID
                            /\ Fates[j].config.DstAddr # Fates[i].config.DstAddr
                            /\ Fates[j].config.VlanID # Fates[i].config.VlanID)
        /\ \A i, j \in DOMAIN Retained :
              i # j =>
                /\ Retained[i].TunnelID # Retained[j].TunnelID
                /\ Retained[i].DstAddr # Retained[j].DstAddr
                /\ Retained[i].VlanID # Retained[j].VlanID

C5_Witness ==
    /\ Validated
    /\ Len(Retained) = 2
    /\ \E i \in DOMAIN Fates :
          Fates[i].lookedUp /\ Fates[i].error = "duplicate dst_addr"

\* The value of one of the three fields of entry i after resolution
FieldOf(f, i) ==
    CASE f = "tunnel_id" -> Fates[i].config.TunnelID
      [] f = "dst_addr" -> Fates[i].config.DstAddr
      [] f = "vlan_id" -> Fates[i].config.VlanID
Sharing(f, i) == {j \in DOMAIN Fates : Resolved(j) /\ FieldOf(f, j) = FieldOf(f, i)}
FirstOf(S) == CHOOSE i \in S : \A j \in S : i <= j

\* C6 as stated: among two or more resolved entries sharing a value of a field,
\* the first in document order is retained and all the later ones are dropped.
C6_FirstOccurrenceRetained ==
    Validated =>
        \A f \in {"tunnel_id", "dst_addr", "vlan_id"} :
            \A i \in DOMAIN Fates :
                Resolved(i) /\ Cardinality(Sharing(f, i)) >= 2 =>
                    (Accepted(i) <=> i = FirstOf(Sharing(f, i)))

\* C6 as amended: among the resolved entries sharing a value of a field, the
\* first is retained unless it duplicates an earlier accepted entry in another
\* of the three fields; every entry after a retained one is dropped, so at most
\* one of them is retained.
C6_FirstRetainedUnlessOtherDuplicate ==
    Validated =>
        \A f \in {"tunnel_id", "dst_addr", "vlan_id"} :
            \A i \in DOMAIN Fates :
                Resolved(i) =>
                    LET first == FirstOf(Sharing(f, i))
                    IN  /\ \/ Accepted(first)
                           \/ \E g \in {"tunnel_id", "dst_addr", "vlan_id"} \ {f} :
                                \E j \in 1..(first - 1) :
                                    Accepted(j) /\ FieldOf(g, j) = FieldOf(g, first)
                        /\ Accepted(i) =>
                              \A k \in Sharing(f, i) : k > i => ~Accepted(k)

C6_Witness ==
    /\ Validated
    /\ \E i, k \in DOMAIN Fates :
          /\ i < k
          /\ Resolved(i) /\ ~Accepted(i) /\ Accepted(k)
          /\ Fates[i].config.VlanID = Fates[k].config.VlanID

\* C7: an entry with a non-empty dst_addr causes no hostname lookup and keeps
\* the document's dst_addr, also when it names a dst_hostname as well.
C7_LiteralDstNeverLookedUp ==
    Validated =>
        \A i \in DOMAIN Fates :
            Fates[i].raw.DstAddr # "" =>
                /\ ~Fates[i].lookedUp
                /\ Accepted(i) =>
                      /\ Fates[i].config.DstAddr = Fates[i].raw.DstAddr
                      /\ \E k \in DOMAIN Retained :
                            Retained[k].DstAddr = Fates[i].raw.DstAddr

C7_Witness ==
    /\ Validated
    /\ \E i \in DOMAIN Fates :
          /\ Accepted(i)
          /\ Fates[i].raw.DstAddr = D6a
          /\ Fates[i].raw.DstHostname = HostName
          /\ ~dns[HostName].err
          /\ D6a \notin {IPString(dns[HostName].ips[k]) : k \in DOMAIN dns[HostName].ips}
          /\ HasGif(i) /\ ObservedDst(i) = D4a

\* C8 as stated: after a failed lookup an entry whose gif exists is retained
\* with the gif's observed destination and a warning and no error; an entry
\* whose gif does not exist is dropped with an error.
C8_LookupFailureFallback ==
    Validated =>
        \A i \in DOMAIN Fates :
            LookupFailed(i) =>
                IF HasGif(i)
                THEN /\ Accepted(i)
                     /\ Fates[i].config.DstAddr = ObservedDst(i)
                     /\ Fates[i].warn /\ Fates[i].error = ""
                ELSE ~Accepted(i) /\ Fates[i].error # "" /\ ~Fates[i].warn

\* C8 as amended: after a failed lookup an entry whose gif exists takes the
\* gif's observed destination with a warning, and is retained without an error
\* unless a duplicate check then drops it; an entry whose gif does not exist is
\* dropped with an error and no warning.
C8_LookupFailureFallbackUnlessDuplicate ==
    Validated =>
        \A i \in DOMAIN Fates :
            LookupFailed(i) =>
                IF HasGif(i)
                THEN /\ Fates[i].config.DstAddr = ObservedDst(i)
                     /\ Fates[i].warn
                     /\ Resolved(i)
                     /\ IF Accepted(i) THEN Fates[i].error = ""
                        ELSE Fates[i].error \in DuplicateReasons
                ELSE /\ ~Accepted(i) /\ ~Fates[i].warn
                     /\ Fates[i].error = "unresolvable dst_hostname"

C8_Witness ==
    /\ Validated
    /\ \E i, j \in DOMAIN Fates :
          /\ LookupFailed(i) /\ HasGif(i) /\ Accepted(i) /\ ObservedDst(i) = D4b
          /\ LookupFailed(j) /\ ~HasGif(j) /\ ~Accepted(j)

\* C9: when the lookup answers and the observed destination of the existing
\* gif is among the answers, the entry takes that destination, whatever the
\* order of the answers and the target version; if retained, its gif is then
\* classified modify only when its source or description differs.
C9_ExistingDstKept ==
    Validated =>
        \A i \in DOMAIN Fates :
            LookupAnswered(i) /\ HasGif(i) /\ ObservedDst(i) \in ResolvedTexts(i) =>
                /\ Resolved(i)
                /\ Fates[i].config.DstAddr = ObservedDst(i)
                /\ ~Fates[i].warn
                /\ Accepted(i) =>
                      LET gif == GifName(Fates[i].raw.TunnelID)
                      IN  /\ Retained[1].DstAddr = ObservedGifs[gif].Dst
                          /\ gif \in DOMAIN plan["loop"].gifsToModify =>
                                \/ ObservedGifs[gif].Src # Fates[i].config.SrcAddr
                                \/ ObservedGifs[gif].Description
                                        # Fates[i].config.Description

C9_Witness ==
    /\ Validated
    /\ \E i \in DOMAIN Fates :
          /\ Accepted(i) /\ LookupAnswered(i) /\ HasGif(i)
          /\ Fates[i].isIPv6
          /\ ResolvedIPs(i) = <<[len |-> 16, n |-> 1], [len |-> 4, n |-> 2]>>
          /\ ObservedDst(i) = D4b
          /\ Fates[i].config.DstAddr = D4b

\* C10: when the lookup answers and the existing destination is not among the
\* answers (or there is no gif), the entry takes the first answer, in lookup
\* order, of the target version; when no answer has that version, an entry
\* whose gif exists keeps the observed destination with a warning and an entry
\* without a gif is skipped with an error.
C10_FirstAnswerOfTargetVersion ==
    Validated =>
        \A i \in DOMAIN Fates :
            LookupAnswered(i) /\ (HasGif(i) => ObservedDst(i) \notin ResolvedTexts(i)) =>
                LET ips == ResolvedIPs(i)
                    matching == {k \in DOMAIN ips :
                                    HasColon(IPString(ips[k])) = Fates[i].isIPv6}
                IN  IF matching # {}
                    THEN /\ Resolved(i) /\ ~Fates[i].warn
                         /\ Fates[i].config.DstAddr = IPString(ips[FirstOf(matching)])
                    ELSE IF HasGif(i)
                    THEN /\ Resolved(i) /\ Fates[i].warn
                         /\ Fates[i].config.DstAddr = ObservedDst(i)
                    ELSE /\ ~Accepted(i) /\ ~Fates[i].warn
                         /\ Fates[i].error = "no suitable IP for dst_hostname"

C10_Witness ==
    /\ Validated
    /\ \E i \in DOMAIN Fates :
          /\ Fates[i].raw.IPVersion = "4" /\ ~HasGif(i)
          /\ ResolvedIPs(i) = <<[len |-> 16, n |-> 1]>>
          /\ LookupAnswered(i)
          /\ ~Accepted(i) /\ Retained = <<>>
          /\ Fates[i].error = "no suitable IP for dst_hostname"

(***************************************************************************)
(* Properties of the passes and of the two control paths.                  *)
(***************************************************************************)
Mutating == {"create", "destroy", "tunnel", "vlan", "addm", "mtu", "link0",
             "description", "up"}
LoopInPass == pc["loop"] \in {"fetch", "apply"}
SigInPass ==
    pc["sig"] \in {"fetch", "teardown", "poll", "refetch", "resnapshot", "apply"}

\* C1: idempotence of a pass.  When a pass of the periodic goroutine completed
\* with every command succeeding and nothing else changed the host, the
\* document or the answers of the resolver, the pass that follows issues no
\* mutating ifconfig command.
C1_SecondPassIssuesNothing ==
    prevClean =>
        \A i \in DOMAIN issued["loop"] : issued["loop"][i].c.verb \notin Mutating

\* C2: mutual exclusion of passes.  A pass of the periodic goroutine and a
\* pass of the signal loop (reconcile-now, reset-VLANs, reset-all) are never
\* both between taking their snapshot and finishing their apply or teardown.
C2_PassesMutuallyExclusive == ~(LoopInPass /\ SigInPass)

\* C3: no mid-pass cancellation.  After SIGINT or SIGTERM the process exits
\* only when the pass of the periodic goroutine has run to completion: it is
\* never cut off between two of its actuation commands.
C3_ExitOnlyBetweenPasses ==
    exited => ~(pc["loop"] = "apply" /\ issued["loop"] # <<>> /\ queue["loop"] # <<>>)

(***************************************************************************)
(* The default source address.                                             *)
(***************************************************************************)
SourceReasons == {"no interface address", "missing src_addr"}
NeedsDefaultSrc(i) ==
    /\ Fates[i].raw.SrcAddr = ""
    /\ missingField(Fates[i].raw) = ""
    /\ ipVersion(Fates[i].raw).ok

\* C11: a spec without src_addr gets the live address of the default
\* interface, else the static default address, and is rejected for its source
\* only when neither of the two provides an address.
C11_DefaultSourcePriority ==
    Validated =>
        \A i \in DOMAIN Fates :
            NeedsDefaultSrc(i) =>
                LET live1 == IF settings.DefaultSrcIface # ""
                             THEN firstAddr(ifAddrs, Fates[i].isIPv6) ELSE ""
                    expected == IF live1 # "" THEN live1 ELSE settings.DefaultSrcAddr
                IN  IF expected = ""
                    THEN Fates[i].error \in SourceReasons
                    ELSE /\ Fates[i].error \notin SourceReasons
                         /\ Fates[i].config.SrcAddr = expected

(***************************************************************************)
(* Resolution errors and the existing tunnel.                              *)
(***************************************************************************)
ResolutionError(i) == LookupFailed(i) \/ Fates[i].error \in SourceReasons
IssuedOn(p, iface, verbs) ==
    {k \in DOMAIN issued[p] : issued[p][k].c.iface = iface /\ issued[p][k].c.verb \in verbs}

\* C12: when the hostname of a spec cannot be resolved, or no default source
\* address can be obtained for it, and gif<tunnel_id> is in the snapshot, the
\* pass neither destroys gif<tunnel_id> nor gives it other tunnel addresses
\* than the ones observed.
C12_ResolutionErrorKeepsGif ==
    pc["loop"] = "apply" =>
        \A i \in DOMAIN Fates :
            (ResolutionError(i) /\ HasGif(i)) =>
                LET gif == GifName(Fates[i].raw.TunnelID)
                    obs == ObservedGifs[gif]
                IN  /\ IssuedOn("loop", gif, {"destroy"}) = {}
                    /\ \A k \in IssuedOn("loop", gif, {"tunnel"}) :
                            LET args == issued["loop"][k].c.args
                            IN  /\ args[Len(args) - 1] = obs.Src
                                /\ args[Len(args)] = obs.Dst

(***************************************************************************)
(* The classification calculateDiff makes, read off the plan of a pass.    *)
(***************************************************************************)
Plan == plan["loop"]
Snapshot == snap["loop"]
SpecsOf(gif) == {i \in DOMAIN Retained : GifName(Retained[i].TunnelID) = gif}
SpecOf(gif) == Retained[CHOOSE i \in SpecsOf(gif) : TRUE]
FlagOf(config) == HasColon(config.SrcAddr) \/ HasColon(config.DstAddr)
SameAttributes(current, config) ==
    /\ current.Src = config.SrcAddr
    /\ current.Dst = config.DstAddr
    /\ current.IsIPv6 = FlagOf(config)
    /\ current.Description = config.Description

\* C13: gif<id> is in gifs-to-add iff a validated spec has that id and no
\* such gif is observed; in gifs-to-modify iff it is in both and they differ
\* in source address, destination address, IP-version flag or description; in
\* gifs-to-remove iff it is observed and no validated spec has that id; a gif
\* in both that is equal in all four attributes is in none of the three.
C13_GifClassification ==
    Validated =>
        \A gif \in GifNames :
            LET wanted == SpecsOf(gif) # {}
                observed == gif \in DOMAIN Snapshot.gifs
            IN  /\ gif \in DOMAIN Plan.gifsToAdd <=> (wanted /\ ~observed)
                /\ gif \in DOMAIN Plan.gifsToModify <=>
                        /\ wanted /\ observed
                        /\ ~SameAttributes(Snapshot.gifs[gif], SpecOf(gif))
                /\ gif \in DOMAIN Plan.gifsToRemove <=> (observed /\ ~wanted)

\* a gif whose addresses are as asked for and whose description alone differs
C13_Witness ==
    /\ Validated
    /\ \E gif \in DOMAIN Plan.gifsToModify :
            /\ Snapshot.gifs[gif].Src = SpecOf(gif).SrcAddr
            /\ Snapshot.gifs[gif].Dst = SpecOf(gif).DstAddr
            /\ Snapshot.gifs[gif].Description # SpecOf(gif).Description

(***************************************************************************)
(* Descriptions.                                                           *)
(***************************************************************************)
CommandsOn(p, iface) == {k \in DOMAIN queue[p] : queue[p][k].c.iface = iface}
AddressesMatch(current, config) ==
    /\ current.Src = config.SrcAddr
    /\ current.Dst = config.DstAddr
    /\ current.IsIPv6 = FlagOf(config)

\* C14: a gif whose observed and desired descriptions are equal after
\* trimming leading and trailing blanks of both, and whose addresses match,
\* is not classified modify and the pass has no command for it.
C14_DescriptionTrimInsensitive ==
    (Validated /\ issued["loop"] = <<>>) =>
        \A gif \in GifNames :
            (/\ SpecsOf(gif) # {}
             /\ gif \in DOMAIN Snapshot.gifs
             /\ AddressesMatch(Snapshot.gifs[gif], SpecOf(gif))
             /\ TrimSpace(Snapshot.gifs[gif].Description)
                    = TrimSpace(SpecOf(gif).Description))
            => /\ gif \notin DOMAIN Plan.gifsToModify
               /\ CommandsOn("loop", gif) = {}

(***************************************************************************)
(* Bridges.                                                                *)
(***************************************************************************)
BridgesWithSpec ==
    {b \in DOMAIN Snapshot.bridges :
        \E i \in DOMAIN Retained : BridgeName(Retained[i].TunnelID) = b}
BridgeSpec(b) == Retained[CHOOSE i \in DOMAIN Retained : BridgeName(Retained[i].TunnelID) = b]
ExpectedMembers(b) ==
    {GifName(BridgeSpec(b).TunnelID), VlanName(settings.PhysicalIface, BridgeSpec(b).VlanID)}
ExactlyExpected(b) ==
    /\ Len(Snapshot.bridges[b].Members) = 2
    /\ Range(Snapshot.bridges[b].Members) = ExpectedMembers(b)
Planned(p, iface, verb) ==
    {k \in DOMAIN queue[p] : queue[p][k].c.iface = iface /\ queue[p][k].c.verb = verb}

C16_CleanupOnlyUnderPhysical ==
    pc["loop"] = "apply" =>
        \A v \in DOMAIN Snapshot.vlans :
            IssuedOn("loop", v, {"destroy"}) # {} => HasPrefixDot(v, settings.PhysicalIface)

(***************************************************************************)
(* runCommand.                                                             *)
(***************************************************************************)
Returned == run.outcomes # <<>> /\ run.result # ""
GoodAttempts ==
    {k \in DOMAIN run.outcomes : run.outcomes[k].exitZero \/ run.outcomes[k].alreadyExists}

\* C17: runCommand makes at least one and at most 3 attempts; it returns nil
\* at the first attempt that exits zero or whose output contains "already
\* exists", whatever the exit status, and makes no attempt after it; it
\* returns an error exactly when all 3 attempts exit non-zero without that
\* text.
C17_RunCommandAttempts ==
    /\ run.made <= 3
    /\ Returned =>
        /\ run.made >= 1
        /\ run.result = "error" <=> GoodAttempts = {}
        /\ run.result = "nil" <=> GoodAttempts # {}
        /\ GoodAttempts # {} =>
                /\ run.made \in GoodAttempts
                /\ \A k \in GoodAttempts : run.made <= k
        /\ GoodAttempts = {} => run.made = 3

\* the second attempt exits non-zero saying "already exists"
C17_Witness ==
    /\ Returned /\ run.result = "nil" /\ run.made = 2
    /\ ~run.outcomes[2].exitZero /\ run.outcomes[2].alreadyExists

(***************************************************************************)
(* Hard failures of commands during a pass.                                *)
(***************************************************************************)
PassApplied == pc["loop"] = "apply" /\ queue["loop"] = <<>>
SpecIfaces(config) ==
    {GifName(config.TunnelID), VlanName(settings.PhysicalIface, config.VlanID),
     BridgeName(config.TunnelID)}
FailedFor(i) ==
    \E k \in DOMAIN issued["loop"] :
        /\ issued["loop"][k].result = "fail"
        /\ issued["loop"][k].c.iface \in SpecIfaces(Retained[i])
ProgramOf(i) ==
    LET steps == configSteps(Retained[i], settings, Snapshot.gifs, Snapshot.vlans,
                             Snapshot.bridges, FALSE)
    IN  [k \in DOMAIN steps |-> steps[k].c]
IssuedFor(i) ==
    LET mine(e) == e.c.iface \in SpecIfaces(Retained[i])
        sel == SelectSeq(issued["loop"], mine)
    IN  [k \in DOMAIN sel |-> sel[k].c]
Orphans == vlanToRemove(Retained, settings, Snapshot.vlans)

\* C18: when a command for one spec fails after its 3 attempts, the pass
\* still runs the commands of every later spec of the validated list and
\* still runs the cleanup of the VLAN interfaces no spec refers to.
C18_FailureDoesNotAbortCycle ==
    PassApplied =>
        \A i \in DOMAIN Retained :
            FailedFor(i) =>
                /\ \A j \in DOMAIN Retained :
                        (j > i /\ ~FailedFor(j)) => IssuedFor(j) = ProgramOf(j)
                /\ \A v \in Orphans : IssuedOn("loop", v, {"destroy"}) # {}

\* a command of the first spec failed, the second spec had commands to run
\* and there was a VLAN interface to clean up
C18_Witness ==
    /\ PassApplied
    /\ Len(Retained) = 2
    /\ FailedFor(1) /\ ~FailedFor(2)
    /\ ProgramOf(2) # <<>>
    /\ Orphans # {}

FailedOn(iface, verbs) ==
    \E k \in IssuedOn("loop", iface, verbs) : issued["loop"][k].result = "fail"

\* C19: when the create or the tunnel command of gif<id> fails after its 3
\* attempts, the VLAN interface and the bridge of the same spec are still
\* reconciled in that pass; a failed VLAN command does not skip the bridge.
C19_FailureSkipsOnlyItsInterface ==
    PassApplied =>
        \A i \in DOMAIN Retained :
            LET gif == GifName(Retained[i].TunnelID)
                vlan == VlanName(settings.PhysicalIface, Retained[i].VlanID)
                bridge == BridgeName(Retained[i].TunnelID)
                vlanWork == vlanItems(Retained[i], settings, Snapshot.vlans, FALSE) # <<>>
                bridgeWork ==
                    bridgeItems(Retained[i], settings, Snapshot.bridges, FALSE) # <<>>
            IN  /\ FailedOn(gif, {"create", "tunnel"}) =>
                    /\ vlanWork => IssuedOn("loop", vlan, Mutating) # {}
                    /\ bridgeWork => IssuedOn("loop", bridge, Mutating) # {}
                /\ FailedOn(vlan, Mutating) =>
                    (bridgeWork => IssuedOn("loop", bridge, Mutating) # {})

(***************************************************************************)
(* Reset-all.                                                              *)
(***************************************************************************)
ResetAllNames ==
    DOMAIN snap["sig"].gifs \cup DOMAIN snap["sig"].vlans \cup DOMAIN snap["sig"].bridges
DestroySucceeded(n) ==
    \E k \in IssuedOn("sig", n, {"destroy"}) : Succeeded(issued["sig"][k].result)
ResetAllRunning == sig = "SIGUSR2" /\ pc["sig"] \in {"teardown", "poll"}

\* C20: reset-all goes on as a success only if every destroy succeeded and
\* either nothing had to be destroyed or a listing taken after the destroys
\* shows none of the destroyed names; while the names are still listed it
\* does not go on, and it ends with the timeout error.
C20_ResetAllSuccessOnlyWhenGone ==
    [][(ResetAllRunning /\ pc'["sig"] = "refetch") =>
            /\ \A n \in ResetAllNames : DestroySucceeded(n)
            /\ \/ ResetAllNames = {}
               \/ /\ pc["sig"] = "poll"
                  /\ ResetAllNames \cap Interfaces(live) = {}]_vars

\* reset-all destroyed interfaces, saw them gone and goes on to fetch
C20_Witness ==
    /\ sig = "SIGUSR2" /\ pc["sig"] = "refetch"
    /\ destroyed # {}
    /\ destroyed \cap Interfaces(live) = {}

(***************************************************************************)
(* The rebuild that follows the teardown of reset-VLANs and reset-all.     *)
(***************************************************************************)
Resets == {"SIGUSR1", "SIGUSR2"}
Programs(configs, s, forceReset) ==
    LET d == calculateDiff(s.gifs, s.bridges, configs, settings.PhysicalIface)
    IN  {applyConfig(gifOrder, bridgeOrder, vlanOrder, configs, settings, s.gifs, s.vlans, s.bridges, forceReset) :
            gifOrder \in Orders(DOMAIN d.gifsToRemove),
            bridgeOrder \in Orders(DOMAIN d.bridgesToRemove),
            vlanOrder \in Orders(vlanToRemove(configs, settings, s.vlans))}

\* C21: after the teardown of reset-VLANs or reset-all, also when the wait
\* for the removal timed out, the signal handler goes on to a fresh fetch,
\* diff and apply, and the program of that apply is the one applyConfig runs
\* with forceReset=true.
C21_RebuildAfterTeardownIsForced ==
    [][/\ (sig \in Resets /\ pc["sig"] = "poll") => pc'["sig"] \in {"poll", "refetch"}
       /\ (sig \in Resets /\ pc["sig"] = "resnapshot" /\ pc'["sig"] = "apply") =>
            queue'["sig"] \in Programs(fetched["sig"].validConfigs, snap'["sig"], TRUE)]_vars

(***************************************************************************)
(* applyConfig with forceReset = true.                                     *)
(***************************************************************************)
CreatedInPass(iface) == IssuedOn("loop", iface, {"create"}) # {}

\* C22: with forceReset=true and every command succeeding, apply takes no
\* "already correct" short-circuit (it issues create for the gif, the VLAN
\* interface and the bridge of every validated spec) and leaves bridge<id>
\* with exactly gif<id> and <physical>.<vlan_id> as members, whatever members
\* the bridge had in the snapshot.
C22_ForcedApplyRebuildsBridges ==
    (PassApplied /\ AllSucceeded(issued["loop"])) =>
        \A i \in DOMAIN Retained :
            LET gif == GifName(Retained[i].TunnelID)
                vlan == VlanName(settings.PhysicalIface, Retained[i].VlanID)
                bridge == BridgeName(Retained[i].TunnelID)
            IN  /\ CreatedInPass(gif) /\ CreatedInPass(vlan) /\ CreatedInPass(bridge)
                /\ bridge \in DOMAIN live.bridges
                /\ Len(live.bridges[bridge]) = 2
                /\ Range(live.bridges[bridge]) = {gif, vlan}

(***************************************************************************)
(* Errors do not stop the periodic loop.                                   *)
(***************************************************************************)
Terminating == {"SIGINT", "SIGTERM"}

\* C23: the process exits only on SIGINT or SIGTERM, and whatever happened
\* in a pass (entries rejected, addresses not resolved, commands failed after
\* their 3 attempts, the fetch failed) or in a reset (failed or timed out),
\* the periodic loop starts another pass unless termination was asked for.
C23_ErrorsDoNotStopTheLoop ==
    /\ [](exited => sig \in Terminating)
    /\ <>(done \/ (passes = MaxPasses /\ pc["loop"] = "idle"))

\* the second pass starts after a pass that met an error and after a command
\* failed after its 3 attempts
C23_Witness ==
    /\ passes = 2 /\ pc["loop"] = "fetch"
    /\ ~prevClean /\ failures = 1 /\ ~done

(***************************************************************************)
(* Notifications and the pass.                                             *)
(***************************************************************************)
\* what is left of a program after the commands of a log ran with the
\* results the log records (<<"other">> when the log is not a run of it)
RECURSIVE Residual(_, _)
Residual(prog, log) ==
    IF log = <<>> THEN prog
    ELSE IF prog = <<>> \/ Head(prog).c # Head(log).c THEN <<"other">>
    ELSE Residual(IF Head(log).result = "fail" THEN afterFailure(prog) ELSE Tail(prog),
                  Tail(log))

PassFollowsItsInputs ==
    pc["loop"] = "apply" =>
        \E prog \in Programs(fetchConfig(document, snap["loop"].gifs, settings, dns,
                                         ifAddrs).validConfigs, snap["loop"], FALSE) :
            Residual(prog, issued["loop"]) = queue["loop"]

\* C24: the commands a pass issues are those of the program that the
\* document, the snapshot and the results of the commands determine, whether
\* the webhook answers, refuses or never answers, and the pass completes in
\* each of the three cases.
C24_NotificationsDoNotInfluencePass ==
    /\ []PassFollowsItsInputs
    /\ <>(passes = MaxPasses /\ pc["loop"] = "idle")

\* a pass ran all its commands while a notification was waiting for a webhook
\* that never answers
C24_Witness ==
    /\ slack.sink = "silent" /\ slack.posts > 0
    /\ PassApplied /\ issued["loop"] # <<>>

(***************************************************************************)
(* The observed state a pass works from.                                   *)
(***************************************************************************)
\* C25: in every pass, the rebuild after a reset included, the validated
\* list that apply works from is the one the validator yields on the very
\* snapshot that the diff and apply use: no decision of the pass rests on an
\* observation older than that snapshot.
C25_OneFreshSnapshotPerPass ==
    \A p \in Paths :
        pc[p] = "apply" =>
            fetched[p].validConfigs
                = fetchConfig(document, snap[p].gifs, settings, dns, ifAddrs).validConfigs

(***************************************************************************)
(* Convergence of the periodic loop.                                       *)
(***************************************************************************)
\* the specs the validator retains on the host as it is now
ValidatedNow ==
    fetchConfig(document, gifInterfaces(live), settings, dns, ifAddrs).validConfigs
InPlace(config) ==
    LET gif == GifName(config.TunnelID)
        vlan == VlanName(settings.PhysicalIface, config.VlanID)
        bridge == BridgeName(config.TunnelID)
    IN  /\ gif \in DOMAIN live.gifs
        /\ live.gifs[gif].src = config.SrcAddr
        /\ live.gifs[gif].dst = config.DstAddr
        /\ vlan \in DOMAIN live.vlans
        /\ live.vlans[vlan] = config.VlanID
        /\ bridge \in DOMAIN live.bridges
        /\ Len(live.bridges[bridge]) = 2
        /\ Range(live.bridges[bridge]) = {gif, vlan}
ConvergedState ==
    \E configs \in {ValidatedNow} :
        /\ \A i \in DOMAIN configs : InPlace(configs[i])
        /\ DOMAIN live.gifs = {GifName(configs[i].TunnelID) : i \in DOMAIN configs}
        /\ DOMAIN live.bridges = {BridgeName(configs[i].TunnelID) : i \in DOMAIN configs}
CannotSucceed ==
    /\ pc["loop"] = "apply" /\ queue["loop"] # <<>>
    /\ Results(live, Head(queue["loop"]).c) = {"fail"}

\* C26: with a fixed document and fixed DNS answers, no other writer and
\* every command succeeding, the periodic loop reaches from any starting host
\* a state, and stays in it, where every validated spec has its gif with the
\* spec's source and destination, its VLAN interface with the spec's tag and
\* its bridge with exactly these two as members, and no other gif or bridge
\* remains (a run that meets a command the host cannot accept is not one in
\* which every command succeeds).
C26_SelfHealingConvergence == <>[](ConvergedState \/ CannotSucceed)

\* a first pass that had to destroy and rebuild a bridge leaves the host
\* converged on a non-empty validated list
C26_Witness ==
    /\ PassApplied /\ passes = 1
    /\ ConvergedState /\ ValidatedNow # <<>>
    /\ \E b \in BridgeNames : IssuedOn("loop", b, {"destroy"}) # {}

(***************************************************************************)
(* The IP version of an entry.                                             *)
(***************************************************************************)
KnownVersions == {"", "4", "6"}
TargetIsIPv6(raw) ==
    IF raw.IPVersion = "6" THEN TRUE
    ELSE IF raw.IPVersion = "4" THEN FALSE
    ELSE HasColon(raw.SrcAddr)
OfVersion(texts, v6) == {k \in DOMAIN texts : HasColon(texts[k]) = v6}

\* C27: the version used to pick the default interface's address and the
\* hostname's address is IPv6 for ip_version "6" and IPv4 for "4" whatever
\* src_addr is; without ip_version it is IPv6 iff the document's src_addr has
\* a colon, hence IPv4 when neither is given; an entry with any other
\* ip_version is rejected.
C27_IPVersionSelection ==
    Validated =>
        \A i \in DOMAIN Fates :
            LET raw == Fates[i].raw
                v6 == TargetIsIPv6(raw)
                own == OfVersion(ifAddrs, v6)
                ips == [k \in DOMAIN ResolvedIPs(i) |-> IPString(ResolvedIPs(i)[k])]
                answers == OfVersion(ips, v6)
            IN  IF raw.IPVersion \notin KnownVersions THEN ~Accepted(i)
                ELSE /\ missingField(raw) = "" /\ raw.SrcAddr = ""
                            /\ settings.DefaultSrcIface # "" /\ own # {} =>
                        Fates[i].config.SrcAddr = ifAddrs[FirstOf(own)]
                     /\ missingField(raw) = "" /\ raw.SrcAddr = ""
                            /\ settings.DefaultSrcIface # "" /\ own = {} =>
                        Fates[i].error = "no interface address"
                     /\ LookupAnswered(i) /\ answers # {}
                            /\ (HasGif(i) => ObservedDst(i) \notin ResolvedTexts(i)) =>
                        Fates[i].config.DstAddr = ips[FirstOf(answers)]

\* ip_version "6" on an IPv4 source: the hostname's IPv6 address is taken
\* although an IPv4 address was answered first
C27_Witness ==
    /\ Validated
    /\ \E i \in DOMAIN Fates :
          /\ Fates[i].raw.IPVersion = "6" /\ Fates[i].raw.SrcAddr = S4
          /\ LookupAnswered(i) /\ ~HasGif(i) /\ Accepted(i)
          /\ ResolvedIPs(i) = <<[len |-> 4, n |-> 1], [len |-> 16, n |-> 1]>>
          /\ Fates[i].config.DstAddr = D6a

(***************************************************************************)
(* The order of the commands of one pass.                                  *)
(***************************************************************************)
\* the place of a command in the order of a pass: removed gifs, removed
\* bridges, then gif, VLAN interface and bridge of each validated spec in the
\* order of the list, then the VLAN interfaces no spec refers to
SpecsUsing(iface) == {i \in DOMAIN Retained : iface \in SpecIfaces(Retained[i])}
PlaceInSpec(i, iface) ==
    IF iface = GifName(Retained[i].TunnelID) THEN 0
    ELSE IF iface = VlanName(settings.PhysicalIface, Retained[i].VlanID) THEN 1
    ELSE 2
Place(c) ==
    IF c.verb = "destroy" /\ c.iface \in DOMAIN plan["loop"].gifsToRemove THEN 0
    ELSE IF c.verb = "destroy" /\ c.iface \in DOMAIN plan["loop"].bridgesToRemove THEN 1
    ELSE IF SpecsUsing(c.iface) # {}
        THEN 3 * FirstOf(SpecsUsing(c.iface)) + PlaceInSpec(FirstOf(SpecsUsing(c.iface)), c.iface)
    ELSE IF c.verb = "destroy" /\ c.iface \in Orphans THEN 3 * (Len(Retained) + 1)
    ELSE -1

\* C28: in one pass every destroy of a gif marked remove precedes every
\* destroy of a bridge marked remove, which precedes every command of a
\* validated spec; the specs are handled in document order, each as gif, VLAN
\* interface, bridge; every destroy of an orphan VLAN interface comes after
\* the last command of the last spec.
C28_CommandOrderWithinPass ==
    pc["loop"] = "apply" =>
        \A j, k \in DOMAIN issued["loop"] :
            j < k =>
                /\ Place(issued["loop"][j].c) >= 0
                /\ Place(issued["loop"][j].c) <= Place(issued["loop"][k].c)

\* a pass that removed a gif and a bridge, built the gif, the VLAN interface
\* and the bridge of a spec and destroyed an orphan VLAN interface
C28_Witness ==
    /\ PassApplied
    /\ \E i \in DOMAIN Retained :
          \A iface \in SpecIfaces(Retained[i]) : IssuedOn("loop", iface, {"create"}) # {}
    /\ \E g \in DOMAIN plan["loop"].gifsToRemove : IssuedOn("loop", g, {"destroy"}) # {}
    /\ \E b \in DOMAIN plan["loop"].bridgesToRemove : IssuedOn("loop", b, {"destroy"}) # {}
    /\ \E v \in Orphans : IssuedOn("loop", v, {"destroy"}) # {}

(***************************************************************************)
(* mtu 1500.                                                               *)
(***************************************************************************)
CleanPass == PassApplied /\ AllSucceeded(issued["loop"])
Sized == GifNames \cup BridgeNames

\* C29 as stated: with forceReset = false and every command succeeding, a pass
\* issues "mtu 1500" for a gif or a bridge if and only if it issues "create"
\* for that interface, a bridge destroyed and created again because of wrong
\* membership included.
C29_MtuIffCreated ==
    CleanPass =>
        \A iface \in Sized :
            IssuedOn("loop", iface, {"mtu"}) # {} <=> IssuedOn("loop", iface, {"create"}) # {}

\* C29 amended: "mtu 1500" is issued for a gif or a bridge if and only if the
\* pass creates it without having destroyed it, that is when it was not in
\* the snapshot; a bridge destroyed and created again because of wrong
\* membership gets no mtu command.
C29_MtuIffFirstCreation ==
    CleanPass =>
        \A iface \in Sized :
            /\ IssuedOn("loop", iface, {"mtu"}) # {} <=>
                    /\ IssuedOn("loop", iface, {"create"}) # {}
                    /\ IssuedOn("loop", iface, {"destroy"}) = {}
            /\ IssuedOn("loop", iface, {"mtu"}) # {} <=>
                    /\ IssuedOn("loop", iface, {"create"}) # {}
                    /\ iface \notin DOMAIN Snapshot.gifs \cup DOMAIN Snapshot.bridges
            /\ \A k \in IssuedOn("loop", iface, {"mtu"}) :
                    issued["loop"][k].c.args = <<"1500">>

\* a clean pass that created a gif with its mtu and recreated a bridge of
\* wrong membership without one
C29_Witness ==
    /\ CleanPass
    /\ \E g \in GifNames :
          IssuedOn("loop", g, {"create"}) # {} /\ IssuedOn("loop", g, {"mtu"}) # {}
    /\ \E b \in BridgeNames :
          /\ b \in DOMAIN Snapshot.bridges
          /\ IssuedOn("loop", b, {"destroy"}) # {}
          /\ IssuedOn("loop", b, {"create"}) # {}
          /\ IssuedOn("loop", b, {"mtu"}) = {}

(***************************************************************************)
(* The description of a gif.                                               *)
(***************************************************************************)
\* C30: a pass issues the description command for gif<id> only when the
\* spec's description is non-empty and differs from the description observed
\* on that gif; a reconfiguration caused only by another source or
\* destination address issues no description command when the description is
\* unchanged.
C30_DescriptionOnlyWhenChanged ==
    pc["loop"] = "apply" =>
        \A i \in DOMAIN Retained :
            LET gif == GifName(Retained[i].TunnelID)
            IN  IssuedOn("loop", gif, {"description"}) # {} =>
                    /\ Retained[i].Description # ""
                    /\ gif \in DOMAIN Snapshot.gifs =>
                            Snapshot.gifs[gif].Description # Retained[i].Description

(***************************************************************************)
(* The VLAN interface of a validated spec.                                 *)
(***************************************************************************)
\* the verbs issued for an interface in this pass, in order, and whether any
\* of these commands failed
VerbsOn(iface) ==
    LET mine(e) == e.c.iface = iface
        sel == SelectSeq(issued["loop"], mine)
    IN  [k \in DOMAIN sel |-> sel[k].c.verb]
FailedOnIface(iface, verbs) ==
    \E k \in IssuedOn("loop", iface, verbs) : issued["loop"][k].result = "fail"
IsPrefix(s, t) == Len(s) <= Len(t) /\ \A k \in DOMAIN s : s[k] = t[k]
\* the pass is over and the VLAN step of the spec was not skipped or cut short
VlanStepRan(config) ==
    /\ PassApplied
    /\ ~FailedOnIface(GifName(config.TunnelID), {"create", "tunnel"})
    /\ ~FailedOnIface(VlanName(settings.PhysicalIface, config.VlanID), {"destroy", "create"})

TornDown == pc["sig"] \in {"poll", "refetch"} /\ AllSucceeded(issued["sig"])
DestroyedBySig ==
    {issued["sig"][k].c.iface : k \in {j \in DOMAIN issued["sig"] : issued["sig"][j].c.verb = "destroy"}}
ManagedVlans == {v \in DOMAIN snap["sig"].vlans : HasPrefixDot(v, settings.PhysicalIface)}

\* C32: every command succeeding, reset-VLANs issues destroy for every
\* observed VLAN interface named <physical>.<n> and for no other interface;
\* reset-all issues destroy for every observed gif and bridge and every VLAN
\* interface under the managed physical interface, and for no interface
\* outside these.
C32_TeardownScope ==
    TornDown =>
        /\ sig = "SIGUSR1" => DestroyedBySig = ManagedVlans
        /\ sig = "SIGUSR2" =>
                DestroyedBySig = DOMAIN snap["sig"].gifs \cup DOMAIN snap["sig"].bridges
                                    \cup ManagedVlans

(***************************************************************************)
(* Rejection is local to the entry.                                        *)
(***************************************************************************)
\* a sequence without the elements at the positions in `drop`
RECURSIVE Without(_, _, _)
Without(seq, drop, k) ==
    IF k > Len(seq) THEN <<>>
    ELSE (IF k \in drop THEN <<>> ELSE <<seq[k]>>) \o Without(seq, drop, k + 1)
Rejected == {i \in DOMAIN Fates : ~Accepted(i)}
FetchWithout(drop) ==
    fetchConfig([document EXCEPT !.configs = Without(@, drop, 1)], Snapshot.gifs,
                settings, dns, ifAddrs)

\* C33: a rejected entry never changes the fate of another entry: fetchConfig
\* returns for the document without any one of its rejected entries the same
\* fates for the other entries, and for the document without all of them the
\* same list; the accepted specs appear in document order.
C33_RejectionIsLocal ==
    Validated =>
        /\ Len(Fates) = Len(document.configs)
        /\ \A i \in Rejected : FetchWithout({i}).fates = Without(Fates, {i}, 1)
        /\ FetchWithout(Rejected).validConfigs = Retained
        /\ LET kept == Without(Fates, Rejected, 1)
           IN  Retained = [k \in DOMAIN kept |-> kept[k].config]

\* an accepted entry that comes after a rejected one and has the destination
\* and the VLAN of the rejected one
C33_Witness ==
    /\ Validated
    /\ \E i, j \in DOMAIN Fates :
          /\ i < j /\ ~Accepted(i) /\ Accepted(j)
          /\ Fates[i].config.DstAddr = Fates[j].config.DstAddr
          /\ Fates[i].config.VlanID = Fates[j].config.VlanID

(***************************************************************************)
(* A document that cannot be fetched.                                      *)
(***************************************************************************)
NothingMutating(p) ==
    /\ \A k \in DOMAIN issued[p] : issued[p][k].c.verb \notin Mutating
    /\ \A k \in DOMAIN queue[p] : queue[p][k].c.verb \notin Mutating

\* C34: when the document cannot be fetched or parsed, the periodic pass and
\* the reconcile-now pass issue no mutating command, and the step in which
\* the fetch fails leaves every interface as it was.
C34_FetchFailureIsFailSafe ==
    /\ [](~document.readable =>
            /\ NothingMutating("loop")
            /\ sig = "SIGHUP" => NothingMutating("sig"))
    /\ [][(LoopFetchFailed \/ SigFetchFailed) => live' = live]_vars

\* the periodic pass gave up on the unreadable document and a reconcile-now
\* pass is about to do the same, on a host that carries interfaces
C34_Witness ==
    /\ ~document.readable /\ Interfaces(live) # {}
    /\ passes = 1 /\ pc["loop"] = "idle" /\ ~prevClean
    /\ sig = "SIGHUP" /\ pc["sig"] = "fetch"

(***************************************************************************)
(* Termination signals.                                                    *)
(***************************************************************************)
\* C35: every SIGINT or SIGTERM delivered to the process eventually leads to
\* the exit of the process, also when it arrives while the signal loop is
\* busy with a pass and another signal is pending in the one-slot channel.
C35_TerminateSignalNotLost == asked ~> exited

(***************************************************************************)
(* The plan and the apply.                                                 *)
(***************************************************************************)
InPlan(gif) == gif \in DOMAIN Plan.gifsToAdd \cup DOMAIN Plan.gifsToModify

\* C36 as stated: with forceReset = false, a pass issues a tunnel command for
\* gif<id> of a validated spec if and only if calculateDiff put gif<id> in
\* gifs-to-add or gifs-to-modify.
C36_PlanAndApplyAgree ==
    PassApplied =>
        \A i \in DOMAIN Retained :
            LET gif == GifName(Retained[i].TunnelID)
            IN  IssuedOn("loop", gif, {"tunnel"}) # {} <=> InPlan(gif)

\* C36 amended: a pass issues a tunnel command for gif<id> of a validated
\* spec if and only if calculateDiff put gif<id> in gifs-to-add or
\* gifs-to-modify and the create of that gif, when there is one, did not fail
\* after its 3 attempts; this includes a spec whose source is IPv4 and whose
\* destination is IPv6.
C36_PlanAndApplyAgreeUnlessCreateFails ==
    PassApplied =>
        \A i \in DOMAIN Retained :
            LET gif == GifName(Retained[i].TunnelID)
            IN  IssuedOn("loop", gif, {"tunnel"}) # {} <=>
                    (InPlan(gif) /\ ~FailedOnIface(gif, {"create"}))

\* a spec from an IPv4 source to an IPv6 destination on a host that carries
\* the gif: planned as a modification, and the tunnel command was issued
C36_Witness ==
    /\ PassApplied
    /\ \E i \in DOMAIN Retained :
          LET gif == GifName(Retained[i].TunnelID)
          IN  /\ ~HasColon(Retained[i].SrcAddr) /\ HasColon(Retained[i].DstAddr)
              /\ gif \in DOMAIN Plan.gifsToModify
              /\ IssuedOn("loop", gif, {"tunnel"}) # {}

(***************************************************************************)
(* A destroy that fails during a reset.                                    *)
(***************************************************************************)
ResetAborts == pc["sig"] = "teardown" /\ pc'["sig"] = "wait"
StillQueued == {queue["sig"][k].c.iface : k \in DOMAIN queue["sig"]}

\* C37: when a destroy fails after its 3 attempts during reset-VLANs or
\* reset-all, the interfaces not yet destroyed are left in place, nothing is
\* polled, and no fetch, diff or apply is run for that signal (the loop goes
\* back to waiting with nothing left to run); the interfaces already
\* destroyed stay absent.  Polling, fetching and planning happen only after a
\* teardown all of whose destroys succeeded.
C37_FailedDestroyAbortsReset ==
    /\ [][ResetAborts =>
            /\ live' = live
            /\ StillQueued \subseteq Interfaces(live')
            /\ DestroyedBySig \cap Interfaces(live') = {}
            /\ sig' = "" /\ queue'["sig"] = <<>> /\ fetched'["sig"] = NotFetched
            /\ plan'["sig"] = NoDiff]_vars
    /\ [](sig \in Resets /\ pc["sig"] \in {"poll", "refetch", "resnapshot"} =>
            AllSucceeded(issued["sig"]))

\* after a reset-all that destroyed the gif and then met a destroy that
\* failed: the signal loop waits again, the bridge is still there
C37_Witness ==
    /\ pc["sig"] = "wait" /\ sig = "" /\ failures = 1
    /\ DOMAIN live.gifs = {} /\ DOMAIN live.bridges = {BridgeName("2")}

(***************************************************************************)
(* The orphan cleanup and the VLAN interfaces of the validated specs.      *)
(***************************************************************************)
DestroysOf(p, iface) ==
    Cardinality(IssuedOn(p, iface, {"destroy"}))
        + Cardinality({k \in DOMAIN queue[p] : queue[p][k].c = Cmd(iface, "destroy", <<>>)})

\* C38: the orphan cleanup never destroys the VLAN interface of a spec of the
\* validated list of the pass, also when a command of that spec failed and
\* its processing was cut short: that interface is no orphan, and the only
\* destroy the pass issues or still has to issue for it is the one that
\* replaces it when it was observed with another tag.
C38_CleanupSparesValidatedVlans ==
    pc["loop"] = "apply" =>
        \A i \in DOMAIN Retained :
            LET vlan == VlanName(settings.PhysicalIface, Retained[i].VlanID)
                retag == vlan \in DOMAIN Snapshot.vlans
                            /\ Snapshot.vlans[vlan] # Retained[i].VlanID
            IN  /\ vlan \notin Orphans
                /\ DestroysOf("loop", vlan) <= (IF retag THEN 1 ELSE 0)
                /\ (PassApplied /\ ~retag /\ vlan \in DOMAIN Snapshot.vlans) =>
                        vlan \in DOMAIN live.vlans

\* a pass that is over, in which a command for the gif of a spec failed and
\* cut the spec short, and the VLAN interface of that spec is still there
C38_Witness ==
    /\ PassApplied
    /\ \E i \in DOMAIN Retained :
          LET vlan == VlanName(settings.PhysicalIface, Retained[i].VlanID)
          IN  /\ FailedOnIface(GifName(Retained[i].TunnelID), {"create", "tunnel"})
              /\ vlan \in DOMAIN Snapshot.vlans
              /\ vlan \in DOMAIN live.vlans

(***************************************************************************)
(* The family of a substituted source and of a resolved destination.       *)
(***************************************************************************)
\* the source of entry i came from default_src_iface or default_src_addr and
\* its destination from the lookup of its hostname
SubstitutedAndResolved(i) ==
    /\ Accepted(i) /\ LookupAnswered(i)
    /\ Fates[i].raw.IPVersion = "" /\ Fates[i].raw.SrcAddr = ""
    /\ Fates[i].config.DstAddr \in ResolvedTexts(i)

\* C39: with ip_version absent and src_addr filled in from default_src_iface
\* or default_src_addr, the hostname's address is picked in the family of the
\* substituted source: a retained spec never has an IPv6 source with an IPv4
\* destination chosen by resolution, nor the reverse.
C39_ResolvedFamilyFollowsSubstitutedSource ==
    Validated =>
        \A i \in DOMAIN Fates :
            SubstitutedAndResolved(i) =>
                HasColon(Fates[i].config.SrcAddr) = HasColon(Fates[i].config.DstAddr)

(***************************************************************************)
(* membersEqual.                                                           *)
(***************************************************************************)
\* C40: membersEqual(m1, m2) is true exactly when the two lists contain the
\* same set of member names, whatever the order, and it is symmetric, for all
\* lists, lists with repeated names included.
C40_MembersEqualIsSetEquality ==
    compared.result \in {"true", "false"} =>
        /\ compared.result = "true" <=> Range(compared.m1) = Range(compared.m2)
        /\ compared.result = compared.swapped

====
